---- MODULE Spec2Model ----
(***************************************************************************)
(* Tanaka server: the CRDT synchronization engine.                         *)
(*                                                                         *)
(* State: the Lamport clock (crdt.rs), the operation log (the             *)
(* crdt_operations table, repository/sqlite/operation.rs), the in-memory  *)
(* document (tabs and windows, crdt.rs) and one in-flight sync request    *)
(* per device.  Two sync implementations exist in the source and both are *)
(* modelled; `path` says which one the router is wired to:                *)
(*   "service": main.rs -> handlers::sync_handler -> CrdtSyncService::sync *)
(*   "handler": lib.rs create_app -> sync::sync_handler                    *)
(*                                                                         *)
(* Clock values stay far below 2^63 in every specification here: the u64  *)
(* wrap of the clock and the i64 clamp of the clock column are not        *)
(* reached.                                                                *)
(***************************************************************************)
EXTENDS Integers, Sequences, FiniteSets, TLC

VARIABLES
    path,       \* which sync implementation serves /sync
    clock,      \* LamportClock.value
    log,        \* rows of crdt_operations, in insertion (rowid) order
    tabs,       \* document "default": tab id -> CrdtTab
    windows,    \* document "default": window id -> CrdtWindow
    pc,         \* per device: position of its in-flight request
    req,        \* per device: the SyncRequest being served
    loaded,     \* per device: `current` read by LamportClock::update
    srv,        \* per device: server_clock returned by update_clock
    idx,        \* per device: number of operations of the batch processed
    opClock,    \* per device: operation_clock of the operation in hand
    resp,       \* per device: rows selected for the response
    result,     \* per device: outcome of its last request
    cursor,     \* per device: clock of its last successful response
    probe,      \* a request handed to validation alone, and its outcome
    auth,       \* the header the auth middleware saw last, the device that
                \* sent it, the verdict, and the number of requests passed on
    repo,       \* the operation repository in use (kind), the number of
                \* direct store calls, and the id and outcome of the last
    limiter,    \* SharedTokenAuthService: its configuration, the time, the
                \* rate_limiter map, and per device the request in hand
    boot,       \* the process's position in main(): phase; max_clock read by
                \* get_max_clock; operations read by get_all; pos, the
                \* number of them replayed
    hist        \* history: delivered[d], the rows of d's responses in order;
                \* mark[d], the log length its last response saw; queried[d],
                \* the log length at the query of the response in hand;
                \* rejected[d], the last request of d that failed
                \* validation; begun, requests so far; lastTick, the last tick() value
                \* of this process; boots, restarts so far; bootClock and
                \* bootLen, the clock and the log length after the last start;
                \* partial, the rows stored by requests that then failed
                \* with a database error; advance, the sum of the steps
                \* update() has moved the clock by in this process; passes,
                \* the times the whole log has been applied to the document;
                \* prefix, the rows of the log applied to it before that

vars == <<path, clock, log, tabs, windows, pc, req, loaded, srv, idx,
          opClock, resp, result, cursor, probe, auth, repo, limiter, boot,
          hist>>

(***************************************************************************)
(* Bounds of the model.                                                    *)
(***************************************************************************)
MaxRequests == 3
BulkExtra == 1
MaxRestarts == 1

\* the placeholder device_id of the auth context
AuthSentinel == "auth-validated"

\* the devices that send requests in the specifications below, and every
\* device_id a request body may carry
Clients == {"d1", "d2"}
Devices == Clients \cup {AuthSentinel}

\* Option<u64>::None
None == 0 - 1

Max(a, b) == IF a >= b THEN a ELSE b

(***************************************************************************)
(* CrdtOperation (sync.rs).  One record shape for the eight variants; a   *)
(* field a variant does not have holds a fixed filler.  The client's      *)
(* updated_at / closed_at is carried in the payload only and is read by   *)
(* no code modelled here, so it is left out.                               *)
(***************************************************************************)
NoTitle == "<none>"

Op(type, id, window_id, url, title, active, index) ==
    [type |-> type, id |-> id, window_id |-> window_id, url |-> url,
     title |-> title, active |-> active, index |-> index]

UpsertTab(id, window_id, url, title, active, index) ==
    Op("upsert_tab", id, window_id, url, title, active, index)
CloseTab(id) == Op("close_tab", id, "", "", NoTitle, FALSE, 0)
SetActive(id, active) == Op("set_active", id, "", "", NoTitle, active, 0)
MoveTab(id, window_id, index) ==
    Op("move_tab", id, window_id, "", NoTitle, FALSE, index)
ChangeUrl(id, url, title) == Op("change_url", id, "", url, title, FALSE, 0)
\* `active` holds the variant's boolean: tracked / focused
TrackWindow(id, tracked) == Op("track_window", id, "", "", NoTitle, tracked, 0)
UntrackWindow(id) == Op("untrack_window", id, "", "", NoTitle, FALSE, 0)
SetWindowFocus(id, focused) ==
    Op("set_window_focus", id, "", "", NoTitle, focused, 0)

target_id(op) == op.id

(***************************************************************************)
(* LamportClock (crdt.rs).                                                 *)
(***************************************************************************)
NewClockValue == 1

\* the width of the clock, an AtomicU64, scaled from 64 bits
ClockWidth == 10
ClockModulus == 2 ^ ClockWidth

\* tick: fetch_add(1) returns the previous value and wraps around
TickMutRepeat(value) == [ret |-> value, next |-> value]
Tick(value) == [ret |-> value, next |-> (value + 1) % ClockModulus]

\* update: received_clock.max(current) + 1 leaves the u64 range (a panic
\* with overflow checks, a wrap without)
UpdateOverflows(received_clock, current) ==
    Max(received_clock, current) + 1 >= ClockModulus

\* update: new_value = received_clock.max(current) + 1
UpdateValue(received_clock, current) ==
    (Max(received_clock, current) + 1) % ClockModulus

\* compare_exchange_weak(current, new_value): succeeds only when the
\* value still equals `current` (and may fail spuriously even then)
CasMutBlind(value, current) == TRUE
CasMatches(value, current) == value = current

(***************************************************************************)
(* Operation log (repository/sqlite/operation.rs, sync.rs).                *)
(***************************************************************************)
OperationId(op_clock, device_id, op) ==
    ToString(op_clock) \o "_" \o device_id \o "_" \o target_id(op)

\* the clock column is a signed integer of the clock's width
I64Max == 2 ^ (ClockWidth - 1) - 1

\* .bind(i64::try_from(clock).unwrap_or(i64::MAX))
AsI64(value) == IF value > I64Max THEN I64Max ELSE value

\* clock: u64::try_from(row.clock).unwrap_or(0): what a column value
\* reads back as
FromI64(column) == IF column < 0 THEN 0 ELSE column

\* the id is formatted from the u64 clock, the clock column bound as i64
Row(op, op_clock, device_id) ==
    [id |-> OperationId(op_clock, device_id, op),
     clock |-> FromI64(AsI64(op_clock)),
     device_id |-> device_id, operation |-> op]

IdExists(rows, id) == \E i \in 1..Len(rows) : rows[i].id = id

\* INSERT INTO crdt_operations: the primary key rejects a duplicate id
StoreOk(rows, op, op_clock, device_id) ==
    ~IdExists(rows, OperationId(op_clock, device_id, op))
Store(rows, op, op_clock, device_id) ==
    Append(rows, Row(op, op_clock, device_id))

IsSortedByClock(rows) ==
    \A i \in 1..(Len(rows) - 1) : rows[i].clock <= rows[i + 1].clock

RECURSIVE InsertByClock(_, _)
InsertByClock(sorted, r) ==
    IF sorted = <<>> \/ sorted[Len(sorted)].clock <= r.clock
    THEN Append(sorted, r)
    ELSE Append(InsertByClock(SubSeq(sorted, 1, Len(sorted) - 1), r),
                sorted[Len(sorted)])

RECURSIVE SortRows(_)
SortRows(rows) ==
    IF rows = <<>> THEN <<>>
    ELSE InsertByClock(SortRows(SubSeq(rows, 1, Len(rows) - 1)),
                       rows[Len(rows)])

\* ORDER BY clock ASC; rows of equal clock come in insertion order (the
\* scan of the clock index)
OrderByClockAsc(rows) == IF IsSortedByClock(rows) THEN rows ELSE SortRows(rows)

Reverse(s) == [i \in 1..Len(s) |-> s[Len(s) + 1 - i]]

\* ORDER BY clock DESC: the same index read backwards
OrderByClockDesc(rows) == Reverse(OrderByClockAsc(rows))

Limit(rows, n) == IF Len(rows) <= n THEN rows ELSE SubSeq(rows, 1, n)

FromOthersMutAll(rows, device_id) == rows
FromOthers(rows, device_id) ==
    SelectSeq(rows, LAMBDA r : r.device_id # device_id)

AfterClockMutInclusive(rows, since_clock) ==
    SelectSeq(rows, LAMBDA r : r.clock >= since_clock)
AfterClock(rows, since_clock) ==
    SelectSeq(rows, LAMBDA r : r.clock > since_clock)

\* WHERE clock > ? AND device_id != ? ORDER BY clock ASC
GetSince(rows, device_id, since_clock) ==
    OrderByClockAsc(AfterClock(FromOthers(rows, device_id),
                               AsI64(since_clock)))

\* WHERE device_id != ? ORDER BY clock DESC LIMIT ?; then operations.reverse()
GetRecentMutNoReverse(rows, device_id, limit) ==
    Limit(OrderByClockDesc(FromOthers(rows, device_id)), limit)
GetRecent(rows, device_id, limit) ==
    Reverse(Limit(OrderByClockDesc(FromOthers(rows, device_id)), limit))

RECURSIVE MaxClockOf(_)
MaxClockOf(rows) ==
    IF rows = <<>> THEN 0
    ELSE Max(rows[Len(rows)].clock, MaxClockOf(SubSeq(rows, 1, Len(rows) - 1)))

\* SELECT COALESCE(MAX(clock), 0)
GetMaxClock(rows) == MaxClockOf(rows)

\* ORDER BY clock ASC
GetAll(rows) == OrderByClockAsc(rows)

\* the limit both sync implementations pass to get_recent on initial sync
InitialSyncLimit == 100

(***************************************************************************)
(* CrdtDocument (crdt.rs): two maps keyed by id.                           *)
(***************************************************************************)
EmptyMap == [x \in {} |-> x]
EmptyDoc == [tabs |-> EmptyMap, windows |-> EmptyMap]

MapInsert(m, key, value) ==
    [x \in (DOMAIN m) \cup {key} |-> IF x = key THEN value ELSE m[x]]
MapRemove(m, key) == [x \in (DOMAIN m) \ {key} |-> m[x]]

CrdtTab(id, window_id, url, title, active, index, updated_at) ==
    [id |-> id, window_id |-> window_id, url |-> url, title |-> title,
     active |-> active, index |-> index, updated_at |-> updated_at]
CrdtWindow(id, tracked, tab_count, updated_at) ==
    [id |-> id, tracked |-> tracked, tab_count |-> tab_count,
     updated_at |-> updated_at]

\* f64::MANTISSA_DIGITS: 53 of the 64 bits of a clock, at the scale of
\* ClockWidth
MantissaDigits == 8

RECURSIVE BitLength(_)
BitLength(n) == IF n = 0 THEN 0 ELSE 1 + BitLength(n \div 2)

\* `updated_at as f64`: the nearest value with MantissaDigits significant
\* bits, a tie going to the even one
AsF64(n) ==
    IF BitLength(n) <= MantissaDigits THEN n
    ELSE LET q == 2 ^ (BitLength(n) - MantissaDigits)
             r == n % q
             down == n - r
         IN IF 2 * r < q THEN down
            ELSE IF 2 * r > q THEN down + q
            ELSE IF (down \div q) % 2 = 0 THEN down ELSE down + q

\* `*n as u64` in get_tabs and get_windows: a cast that saturates
AsU64(f) == IF f >= ClockModulus THEN ClockModulus - 1 ELSE f

\* the stamp get_tabs reads back after upsert_tab has written it
StoredStamp(updated_at) == AsU64(AsF64(updated_at))

upsert_tabMutBumpsIndex(doc, tab) ==
    [doc EXCEPT !.tabs =
        MapInsert(doc.tabs, tab.id,
                  [tab EXCEPT !.updated_at = StoredStamp(@),
                              !.index = IF tab.id \in DOMAIN doc.tabs
                                        THEN doc.tabs[tab.id].index + 1
                                        ELSE @])]
upsert_tab(doc, tab) ==
    [doc EXCEPT !.tabs =
        MapInsert(doc.tabs, tab.id,
                  [tab EXCEPT !.updated_at = StoredStamp(@)])]
remove_tabMutClears(doc, tab_id) == [doc EXCEPT !.tabs = EmptyMap]
remove_tab(doc, tab_id) == [doc EXCEPT !.tabs = MapRemove(doc.tabs, tab_id)]
upsert_windowMutCounts(doc, w) ==
    [doc EXCEPT !.windows =
        MapInsert(doc.windows, w.id,
                  [w EXCEPT !.updated_at = StoredStamp(@),
                            !.tab_count = IF w.id \in DOMAIN doc.windows
                                          THEN doc.windows[w.id].tab_count + 1
                                          ELSE 0])]
upsert_window(doc, w) ==
    [doc EXCEPT !.windows =
        MapInsert(doc.windows, w.id,
                  [w EXCEPT !.updated_at = StoredStamp(@)])]

\* tabs.into_iter().find(|t| t.id == *id)
HasTab(doc, id) == id \in DOMAIN doc.tabs
HasWindow(doc, id) == id \in DOMAIN doc.windows

(***************************************************************************)
(* apply_operation_to_state (sync.rs): the live application of one        *)
(* operation at its clock.                                                 *)
(***************************************************************************)
ApplyOperationToState(doc, op, op_clock) ==
    CASE op.type = "upsert_tab" ->
           upsert_tab(doc, CrdtTab(op.id, op.window_id, op.url, op.title,
                                   op.active, op.index, op_clock))
      [] op.type = "close_tab" -> remove_tab(doc, op.id)
      [] op.type = "set_active" ->
           IF HasTab(doc, op.id)
           THEN upsert_tab(doc, [doc.tabs[op.id] EXCEPT
                                   !.active = op.active,
                                   !.updated_at = op_clock])
           ELSE doc
      [] op.type = "move_tab" ->
           IF HasTab(doc, op.id)
           THEN upsert_tab(doc, [doc.tabs[op.id] EXCEPT
                                   !.window_id = op.window_id,
                                   !.index = op.index,
                                   !.updated_at = op_clock])
           ELSE doc
      [] op.type = "change_url" ->
           IF HasTab(doc, op.id)
           THEN upsert_tab(doc, [doc.tabs[op.id] EXCEPT
                                   !.url = op.url,
                                   !.title = IF op.title # NoTitle
                                             THEN op.title ELSE @,
                                   !.updated_at = op_clock])
           ELSE doc
      [] op.type = "track_window" ->
           upsert_window(doc, CrdtWindow(op.id, op.active, 0, op_clock))
      [] op.type = "untrack_window" ->
           IF HasWindow(doc, op.id)
           THEN upsert_window(doc, [doc.windows[op.id] EXCEPT
                                      !.tracked = FALSE,
                                      !.updated_at = op_clock])
           ELSE upsert_window(doc, CrdtWindow(op.id, FALSE, 0, op_clock))
      [] op.type = "set_window_focus" ->
           IF HasWindow(doc, op.id)
           THEN upsert_window(doc, [doc.windows[op.id] EXCEPT
                                      !.updated_at = op_clock])
           ELSE doc

\* apply_operation_to_state over rows, each at its clock
RECURSIVE LiveFold(_, _)
LiveFold(doc, rows) ==
    IF rows = <<>> THEN doc
    ELSE LiveFold(ApplyOperationToState(doc, Head(rows).operation,
                                        Head(rows).clock),
                  Tail(rows))

(***************************************************************************)
(* CrdtManager::restore_from_operations (crdt.rs): the replay at startup. *)
(***************************************************************************)
RestoreOperation(doc, op, op_clock) ==
    CASE op.type = "upsert_tab" ->
           upsert_tab(doc, CrdtTab(op.id, op.window_id, op.url, op.title,
                                   op.active, op.index, op_clock))
      [] op.type = "close_tab" -> remove_tab(doc, op.id)
      [] op.type = "set_active" ->
           IF HasTab(doc, op.id)
           THEN upsert_tab(doc, [doc.tabs[op.id] EXCEPT
                                   !.active = op.active,
                                   !.updated_at = op_clock])
           ELSE doc
      [] op.type = "move_tab" ->
           IF HasTab(doc, op.id)
           THEN upsert_tab(doc, [doc.tabs[op.id] EXCEPT
                                   !.window_id = op.window_id,
                                   !.index = op.index,
                                   !.updated_at = op_clock])
           ELSE doc
      [] op.type = "change_url" ->
           IF HasTab(doc, op.id)
           THEN upsert_tab(doc, [doc.tabs[op.id] EXCEPT
                                   !.url = op.url,
                                   !.title = IF op.title # NoTitle
                                             THEN op.title ELSE @,
                                   !.updated_at = op_clock])
           ELSE doc
      [] op.type = "track_window" ->
           upsert_window(doc, CrdtWindow(op.id, TRUE, 0, op_clock))
      [] op.type = "untrack_window" ->
           IF HasWindow(doc, op.id)
           THEN upsert_window(doc, [doc.windows[op.id] EXCEPT
                                      !.tracked = FALSE,
                                      !.updated_at = op_clock])
           ELSE doc
      [] op.type = "set_window_focus" ->
           IF HasWindow(doc, op.id)
           THEN upsert_window(doc, [doc.windows[op.id] EXCEPT
                                      !.updated_at = op_clock])
           ELSE doc

RECURSIVE RestoreInto(_, _)
RestoreInto(doc, rows) ==
    IF rows = <<>> THEN doc
    ELSE RestoreOperation(RestoreInto(doc, SubSeq(rows, 1, Len(rows) - 1)),
                          rows[Len(rows)].operation, rows[Len(rows)].clock)

\* a new manager has no document; get_or_create_document makes an empty one
RestoreFromOperations(rows) == RestoreInto(EmptyDoc, rows)

(***************************************************************************)
(* ServerBootstrap::initialize_crdt_manager / restore_crdt_manager         *)
(* (startup.rs).                                                           *)
(***************************************************************************)
InitialClockMutNoStep(max_clock) ==
    IF max_clock > 0 THEN max_clock ELSE NewClockValue
InitialClock(max_clock) ==
    IF max_clock > 0 THEN max_clock + 1 ELSE NewClockValue

RestoredDoc(rows) ==
    IF GetMaxClock(rows) > 0 /\ Len(GetAll(rows)) > 0
    THEN RestoreFromOperations(GetAll(rows))
    ELSE EmptyDoc

(***************************************************************************)
(* Validation (services/sync.rs, sync.rs).                                 *)
(***************************************************************************)
MaxDeviceIdLength == 128
MaxOperations == 1000
MaxTargetIdLength == 256
MaxUrlLength == 2048
MaxTitleLength == 512

\* characters whose UTF-8 encoding takes two bytes
TwoByteChars == {"é"}

\* str::len(): the length of the UTF-8 encoding in bytes
StrLen(s) ==
    Len(s) + Cardinality({i \in 1..Len(s) : SubSeq(s, i, i) \in TwoByteChars})

\* CrdtSyncService::validate_sync_request
ValidateSyncRequest(request, device_id) ==
    /\ device_id # ""
    /\ StrLen(device_id) <= MaxDeviceIdLength
    /\ device_id # AuthSentinel
    /\ (request.since_clock # None => request.since_clock <= request.clock)
    /\ Len(request.operations) <= MaxOperations

\* one arm of CrdtSyncService::validate_operations
ServiceValidateOperation(op) ==
    CASE op.type = "upsert_tab" ->
           /\ op.id # ""
           /\ StrLen(op.id) <= MaxTargetIdLength
           /\ op.url # ""
           /\ StrLen(op.url) <= MaxUrlLength
           /\ StrLen(op.title) <= MaxTitleLength
           /\ op.window_id # ""
      [] op.type \in {"close_tab", "set_active"} -> op.id # ""
      [] op.type = "change_url" ->
           /\ op.id # ""
           /\ op.url # ""
           /\ StrLen(op.url) <= MaxUrlLength
      [] op.type = "move_tab" -> op.id # "" /\ op.window_id # ""
      [] op.type \in {"track_window", "untrack_window", "set_window_focus"} ->
           op.id # ""

\* CrdtOperation::validate
HandlerValidateOperation(op) ==
    CASE op.type = "upsert_tab" ->
           /\ op.id # ""
           /\ op.url # ""
           /\ op.window_id # ""
           /\ op.index >= 0
      [] op.type \in {"close_tab", "set_active"} -> op.id # ""
      [] op.type = "change_url" -> op.id # "" /\ op.url # ""
      [] op.type = "move_tab" ->
           op.id # "" /\ op.window_id # "" /\ op.index >= 0
      [] op.type \in {"track_window", "untrack_window", "set_window_focus"} ->
           op.id # ""

\* the validation one operation meets on path p
OperationAccepted(p, op) ==
    IF p = "service" THEN ServiceValidateOperation(op)
    ELSE HandlerValidateOperation(op)

AcceptsMutFirstOnly(p, request, device_id) ==
    /\ p = "service" => ValidateSyncRequest(request, device_id)
    /\ request.operations # <<>> =>
          OperationAccepted(p, request.operations[1])

\* the checks a request passes before the clock is touched
Accepts(p, request, device_id) ==
    IF p = "service"
    THEN /\ ValidateSyncRequest(request, device_id)
         /\ \A i \in 1..Len(request.operations) :
               ServiceValidateOperation(request.operations[i])
    ELSE \A i \in 1..Len(request.operations) :
               HandlerValidateOperation(request.operations[i])

(***************************************************************************)
(* The sync request of one device, step by step.  A step holds at most    *)
(* one access to shared state (the clock, the log, the document).         *)
(***************************************************************************)
NoRequest == [clock |-> 0, since_clock |-> None, operations |-> <<>>]

Idle(d) == pc[d] = "idle"
AllIdle == \A d \in Devices : Idle(d)

\* rows delivered to d over its successful responses, in order
Delivered(d) == hist.delivered[d]

RowSet(rows) == {rows[i] : i \in 1..Len(rows)}

\* The client: since_clock is the clock of its previous response (absent
\* on its first call); request.clock is its own clock.
RequestsOf(d, batches) ==
    {[clock |-> Max(cursor[d], 0), since_clock |-> cursor[d],
      operations |-> b] : b \in batches}

Finish(d, outcome) ==
    /\ pc' = [pc EXCEPT ![d] = "idle"]
    /\ req' = [req EXCEPT ![d] = NoRequest]
    /\ loaded' = [loaded EXCEPT ![d] = 0]
    /\ srv' = [srv EXCEPT ![d] = 0]
    /\ idx' = [idx EXCEPT ![d] = 0]
    /\ opClock' = [opClock EXCEPT ![d] = 0]
    /\ result' = [result EXCEPT ![d] = outcome]

\* The response {clock, operations} reaches the client.  `seen` is the
\* number of log rows that existed when the response's query ran.
Respond(d, response_clock, rows, seen) ==
    /\ Finish(d, "ok")
    /\ resp' = [resp EXCEPT ![d] = rows]
    /\ cursor' = [cursor EXCEPT ![d] = response_clock]
    /\ hist' = [hist EXCEPT !.delivered[d] = @ \o rows,
                            !.mark[d] = seen,
                            !.queried[d] = 0]

\* A request arrives.  A request that fails validation is answered at
\* once; an accepted one enters LamportClock::update and loads `current`.
BeginRequest(d, requests, maxRequests) ==
    /\ Idle(d)
    /\ hist.begun < maxRequests
    /\ \E request \in requests :
         /\ IF Accepts(path, request, d)
            THEN /\ pc' = [pc EXCEPT ![d] = "update_cas"]
                 /\ req' = [req EXCEPT ![d] = request]
                 /\ loaded' = [loaded EXCEPT ![d] = clock]
                 /\ result' = [result EXCEPT ![d] = "none"]
                 /\ resp' = [resp EXCEPT ![d] = <<>>]
                 /\ UNCHANGED <<srv, idx, opClock>>
                 /\ hist' = [hist EXCEPT !.begun = @ + 1]
            ELSE /\ Finish(d, "validation_error")
                 /\ resp' = [resp EXCEPT ![d] = <<>>]
                 /\ hist' = [hist EXCEPT !.begun = @ + 1,
                                         !.rejected[d] = request]
    /\ UNCHANGED <<boot, probe, auth, repo, limiter, path, clock, log, tabs, windows, cursor>>

Begin(d, batches, maxRequests) ==
    BeginRequest(d, RequestsOf(d, batches), maxRequests)

\* LamportClock::update: let current = self.value.load(), on a retry
UpdateLoad(d) ==
    /\ pc[d] = "update_load"
    /\ loaded' = [loaded EXCEPT ![d] = clock]
    /\ pc' = [pc EXCEPT ![d] = "update_cas"]
    /\ UNCHANGED <<boot, probe, auth, repo, limiter, path, clock, log, tabs, windows, req, srv, idx, opClock,
                   resp, result, cursor, hist>>

AfterOperation(d, done) ==
    IF done < Len(req[d].operations) THEN "next_op" ELSE "query"

\* LamportClock::update: compare_exchange_weak succeeds
UpdateCas(d) ==
    /\ pc[d] = "update_cas"
    /\ CasMatches(clock, loaded[d])
    /\ clock' = UpdateValue(req[d].clock, loaded[d])
    /\ srv' = [srv EXCEPT ![d] = clock']
    /\ pc' = [pc EXCEPT ![d] = AfterOperation(d, 0)]
    /\ hist' = [hist EXCEPT !.advance = @ + (clock' - clock)]
    /\ UNCHANGED <<boot, probe, auth, repo, limiter, path, log, tabs, windows, req, loaded, idx, opClock, resp,
                   result, cursor>>

\* LamportClock::update: compare_exchange_weak fails (the value changed,
\* or spuriously) and the loop retries
UpdateRetry(d) ==
    /\ pc[d] = "update_cas"
    /\ pc' = [pc EXCEPT ![d] = "update_load"]
    /\ UNCHANGED <<boot, probe, auth, repo, limiter, path, clock, log, tabs, windows, req, loaded, srv, idx,
                   opClock, resp, result, cursor, hist>>

\* CrdtSyncService::sync: let operation_clock = tick_clock()
TickOperation(d) ==
    /\ pc[d] = "next_op"
    /\ path = "service"
    /\ opClock' = [opClock EXCEPT ![d] = Tick(clock).ret]
    /\ clock' = Tick(clock).next
    /\ pc' = [pc EXCEPT ![d] = "store"]
    /\ hist' = [hist EXCEPT !.lastTick = opClock'[d]]
    /\ UNCHANGED <<boot, probe, auth, repo, limiter, path, log, tabs, windows, req, loaded, srv, idx, resp,
                   result, cursor>>

\* sync_handler: let operation_clock = current_clock()
ReadOperationClock(d) ==
    /\ pc[d] = "next_op"
    /\ path = "handler"
    /\ opClock' = [opClock EXCEPT ![d] = clock]
    /\ pc' = [pc EXCEPT ![d] = "store"]
    /\ UNCHANGED <<boot, probe, auth, repo, limiter, path, clock, log, tabs, windows, req, loaded, srv, idx,
                   resp, result, cursor, hist>>

CurrentOperation(d) == req[d].operations[idx[d] + 1]

\* the rows the request d has in hand stored so far: the last idx[d] rows
\* of device d
RequestRows(d) ==
    LET own == SelectSeq(log, LAMBDA r : r.device_id = d)
    IN {own[i] : i \in (Len(own) - idx[d] + 1)..Len(own)}

\* store / store_operation: the INSERT commits, or it hits the primary key
\* and the request fails with a database error
StoreOperation(d) ==
    /\ pc[d] = "store"
    /\ IF StoreOk(log, CurrentOperation(d), opClock[d], d)
       THEN /\ log' = Store(log, CurrentOperation(d), opClock[d], d)
            /\ IF path = "service"
               THEN /\ idx' = [idx EXCEPT ![d] = @ + 1]
                    /\ pc' = [pc EXCEPT
                                ![d] = AfterOperation(d, idx[d] + 1)]
               ELSE /\ idx' = idx
                    /\ pc' = [pc EXCEPT ![d] = "apply"]
            /\ UNCHANGED <<req, loaded, srv, opClock, result>>
            /\ hist' = hist
       ELSE /\ Finish(d, "database_error")
            /\ log' = log
            /\ hist' = [hist EXCEPT !.partial = @ \cup RequestRows(d)]
    /\ UNCHANGED <<boot, probe, auth, repo, limiter, path, clock, tabs, windows, resp, cursor>>

Document == [tabs |-> tabs, windows |-> windows]

\* store_operation: apply_operation_to_state under the document lock
ApplyOperation(d) ==
    /\ pc[d] = "apply"
    /\ LET doc == ApplyOperationToState(Document, CurrentOperation(d),
                                        opClock[d])
       IN /\ tabs' = doc.tabs
          /\ windows' = doc.windows
    /\ idx' = [idx EXCEPT ![d] = @ + 1]
    /\ pc' = [pc EXCEPT ![d] = AfterOperation(d, idx[d] + 1)]
    /\ UNCHANGED <<boot, probe, auth, repo, limiter, path, clock, log, req, loaded, srv, opClock, resp, result,
                   cursor, hist>>

\* the rows both implementations select for the response
SelectOutbound(rows, device_id, since_clock) ==
    IF since_clock # None
    THEN GetSince(rows, device_id, since_clock)
    ELSE GetRecent(rows, device_id, InitialSyncLimit)

\* CrdtSyncService::sync: the query, then SyncResponse{clock: server_clock}
ServiceQuery(d) ==
    /\ pc[d] = "query"
    /\ path = "service"
    /\ LET rows == SelectOutbound(log, d, req[d].since_clock)
       IN Respond(d, srv[d], rows, Len(log))
    /\ UNCHANGED <<boot, probe, auth, repo, limiter, path, clock, log, tabs, windows>>

\* sync_handler: the query
HandlerQuery(d) ==
    /\ pc[d] = "query"
    /\ path = "handler"
    /\ resp' = [resp EXCEPT ![d] = SelectOutbound(log, d, req[d].since_clock)]
    /\ pc' = [pc EXCEPT ![d] = "final_clock"]
    /\ hist' = [hist EXCEPT !.queried[d] = Len(log)]
    /\ UNCHANGED <<boot, probe, auth, repo, limiter, path, clock, log, tabs, windows, req, loaded, srv, idx,
                   opClock, result, cursor>>

\* sync_handler: let current_clock = current_clock(); SyncResponse{clock}
HandlerRespond(d) ==
    /\ pc[d] = "final_clock"
    /\ Respond(d, clock, resp[d], hist.queried[d])
    /\ UNCHANGED <<boot, probe, auth, repo, limiter, path, clock, log, tabs, windows>>

\* The process stops and starts again: requests in flight are lost, the
\* clock and the document are rebuilt from the log before serving.
Restart ==
    /\ hist.boots < MaxRestarts
    /\ clock' = InitialClock(GetMaxClock(log))
    /\ LET doc == RestoredDoc(log)
       IN /\ tabs' = doc.tabs
          /\ windows' = doc.windows
    /\ pc' = [d \in Devices |-> "idle"]
    /\ req' = [d \in Devices |-> NoRequest]
    /\ loaded' = [d \in Devices |-> 0]
    /\ srv' = [d \in Devices |-> 0]
    /\ idx' = [d \in Devices |-> 0]
    /\ opClock' = [d \in Devices |-> 0]
    /\ result' = [d \in Devices |->
                    IF Idle(d) THEN result[d] ELSE "lost"]
    /\ resp' = [d \in Devices |-> IF Idle(d) THEN resp[d] ELSE <<>>]
    /\ hist' = [hist EXCEPT
                  !.boots = @ + 1,
                  !.lastTick = None,
                  !.advance = 0,
                  !.queried = [d \in Devices |-> 0],
                  !.bootClock = clock',
                  !.bootLen = Len(log)]
    /\ UNCHANGED <<boot, probe, auth, repo, limiter, path, log, cursor>>

(***************************************************************************)
(* main (main.rs) and ServerBootstrap (startup.rs), statement by           *)
(* statement: the process stops, and a new one runs main() from the top.   *)
(***************************************************************************)
\* axum::serve is running on a manager made for an empty database
Serving == [phase |-> "serving", max_clock |-> 0, operations |-> <<>>,
            pos |-> 0]

\* the process is gone: no manager, no document, requests in flight lost
Crash ==
    /\ boot.phase = "serving"
    /\ hist.boots < MaxRestarts
    /\ boot' = [phase |-> "get_max_clock", max_clock |-> 0,
                operations |-> <<>>, pos |-> 0]
    /\ clock' = 0
    /\ tabs' = EmptyMap
    /\ windows' = EmptyMap
    /\ pc' = [d \in Devices |-> "idle"]
    /\ req' = [d \in Devices |-> NoRequest]
    /\ loaded' = [d \in Devices |-> 0]
    /\ srv' = [d \in Devices |-> 0]
    /\ idx' = [d \in Devices |-> 0]
    /\ opClock' = [d \in Devices |-> 0]
    /\ result' = [d \in Devices |->
                    IF Idle(d) THEN result[d] ELSE "lost"]
    /\ resp' = [d \in Devices |-> IF Idle(d) THEN resp[d] ELSE <<>>]
    /\ hist' = [hist EXCEPT
                  !.boots = @ + 1,
                  !.lastTick = None,
                  !.advance = 0,
                  !.queried = [d \in Devices |-> 0]]
    /\ UNCHANGED <<probe, auth, repo, limiter, path, log, cursor>>

\* initialize_crdt_manager: if max_clock > 0 { restore } else { new }
AfterMaxClockMutNoReplay(max_clock) == "bind"
AfterMaxClock(max_clock) == IF max_clock > 0 THEN "get_all" ELSE "bind"

\* let max_clock = get_max_clock().await?; then the manager is made, with
\* the clock at max_clock + 1 or at 1
BootGetMaxClock ==
    /\ boot.phase = "get_max_clock"
    /\ \/ /\ boot' = [boot EXCEPT !.phase = "failed"]
          /\ UNCHANGED clock
       \/ LET max_clock == GetMaxClock(log)
          IN /\ boot' = [boot EXCEPT !.max_clock = max_clock,
                                     !.phase = AfterMaxClock(max_clock)]
             /\ clock' = InitialClock(max_clock)
    /\ UNCHANGED <<probe, auth, repo, limiter, path, log, tabs, windows, pc,
                   req, loaded, srv, idx, opClock, resp, result, cursor,
                   hist>>

\* let operations = get_all().await?; a database error or a row that does
\* not deserialize ends main with the error
BootGetAll ==
    /\ boot.phase = "get_all"
    /\ \/ boot' = [boot EXCEPT !.phase = "failed"]
       \/ LET operations == GetAll(log)
          IN boot' = [boot EXCEPT
                        !.operations = operations,
                        !.phase = IF Len(operations) > 0 THEN "replay"
                                  ELSE "bind"]
    /\ UNCHANGED <<probe, auth, repo, limiter, path, clock, log, tabs,
                   windows, pc, req, loaded, srv, idx, opClock, resp, result,
                   cursor, hist>>

\* restore_from_operations: one turn of `for stored_op in operations`
BootReplay ==
    /\ boot.phase = "replay"
    /\ LET stored_op == boot.operations[boot.pos + 1]
           doc == RestoreOperation(Document, stored_op.operation,
                                   stored_op.clock)
       IN /\ tabs' = doc.tabs
          /\ windows' = doc.windows
    /\ boot' = [boot EXCEPT
                  !.pos = @ + 1,
                  !.phase = IF boot.pos + 1 = Len(boot.operations)
                            THEN "bind" ELSE "replay"]
    /\ UNCHANGED <<probe, auth, repo, limiter, path, clock, log, pc, req,
                   loaded, srv, idx, opClock, resp, result, cursor, hist>>

\* parse_bind_address(..)?; TcpListener::bind(addr).await?; axum::serve
BootBind ==
    /\ boot.phase = "bind"
    /\ \/ /\ boot' = [boot EXCEPT !.phase = "failed"]
          /\ UNCHANGED hist
       \/ /\ boot' = [boot EXCEPT !.phase = "serving"]
          /\ hist' = [hist EXCEPT !.bootClock = clock,
                                  !.bootLen = Len(log)]
    /\ UNCHANGED <<probe, auth, repo, limiter, path, clock, log, tabs,
                   windows, pc, req, loaded, srv, idx, opClock, resp, result,
                   cursor>>

(***************************************************************************)
(* Specifications.                                                         *)
(***************************************************************************)
Paths == {"service", "handler"}

\* a manager made by initialize_crdt_manager for a database that holds
\* rows, its document still empty
ManagerOn(rows) ==
    /\ path \in Paths
    /\ boot = Serving
    /\ clock = InitialClock(GetMaxClock(rows))
    /\ log = rows
    /\ tabs = EmptyMap
    /\ windows = EmptyMap
    /\ pc = [d \in Devices |-> "idle"]
    /\ req = [d \in Devices |-> NoRequest]
    /\ loaded = [d \in Devices |-> 0]
    /\ srv = [d \in Devices |-> 0]
    /\ idx = [d \in Devices |-> 0]
    /\ opClock = [d \in Devices |-> 0]
    /\ resp = [d \in Devices |-> <<>>]
    /\ result = [d \in Devices |-> "none"]
    /\ cursor = [d \in Devices |-> None]
    /\ hist = [delivered |-> [d \in Devices |-> <<>>],
               mark |-> [d \in Devices |-> 0],
               queried |-> [d \in Devices |-> 0],
               rejected |-> [d \in Devices |-> NoRequest],
               begun |-> 0,
               lastTick |-> None,
               boots |-> 0,
               bootClock |-> clock,
               bootLen |-> Len(rows),
               partial |-> {},
               advance |-> 0,
               passes |-> 0,
               prefix |-> 0]

\* a fresh database: initialize_crdt_manager finds max_clock = 0
FreshServer == ManagerOn(<<>>)

NoProbe == [device_id |-> "", request |-> NoRequest, outcome |-> "none"]

\* a header of the request: absent, or present with a value
NoHeader == [present |-> FALSE, value |-> ""]
Header(v) == [present |-> TRUE, value |-> v]

NoAuth == [header |-> NoHeader, device_id |-> "", verdict |-> "none",
           passed |-> 0]

\* the repository of a running server, no direct call made
SqliteRepo == [kind |-> "sqlite", calls |-> 0, id |-> "", outcome |-> "none"]

\* RateLimitInfo of a device, or no entry in the map
NoEntry == [present |-> FALSE, request_count |-> 0, window_start |-> 0]

\* the requests that may be inside the auth service at once
Workers == {"r1", "r2"}

\* a request inside check_rate_limit / record_request: its position, its
\* device_id, its reading of Instant::now(), its verdict, and whether it
\* found the cleanup lock held
NoCall == [at |-> "idle", device_id |-> "", now |-> 0, within_limit |-> TRUE,
           skipped |-> FALSE]

\* lock: the holder of last_cleanup's mutex; swept / spared: a cleanup has
\* removed / has kept an entry; raced[d]: two requests of d have overlapped
NoLimiter ==
    [rate_limiting |-> FALSE, max_requests_per_minute |-> 0, now |-> 0,
     last_cleanup |-> 0,
     rate_limiter |-> [d \in Devices |-> NoEntry],
     checked |-> [d \in Devices |-> FALSE],
     within_limit |-> [d \in Devices |-> TRUE],
     first |-> [d \in Devices |-> None],
     nth |-> [d \in Devices |-> 0],
     lock |-> "",
     call |-> [w \in Workers |-> NoCall],
     swept |-> FALSE,
     spared |-> FALSE,
     raced |-> [d \in Devices |-> FALSE]]

Init ==
    /\ FreshServer
    /\ probe = NoProbe
    /\ auth = NoAuth
    /\ repo = SqliteRepo
    /\ limiter = NoLimiter

\* two operations on one target in one request
PairBatch == <<UpsertTab("t1", "w1", "u1", "a", TRUE, 0),
               ChangeUrl("t1", "u2", "b")>>

\* the requests of the protocol specification: a poll, one operation
ProtoBatches == {<<>>, <<CloseTab("t1")>>}

\* every variant, on one tab and one window
DocOps ==
    {UpsertTab("t1", "w1", "u1", "a", TRUE, 0),
     CloseTab("t1"),
     SetActive("t1", FALSE),
     MoveTab("t1", "w2", 1),
     ChangeUrl("t1", "u2", NoTitle),
     ChangeUrl("t1", "u2", "b"),
     TrackWindow("w1", TRUE),
     TrackWindow("w1", FALSE),
     UntrackWindow("w1"),
     SetWindowFocus("w1", TRUE)}

\* a poll, every variant alone, and two operations on one target
DocBatches == {<<>>, PairBatch} \cup {<<op>> : op \in DocOps}

\* one batch that is longer than the initial-sync limit
BulkLen == InitialSyncLimit + BulkExtra
BulkBatch ==
    [i \in 1..BulkLen |->
        UpsertTab("tab-" \o ToString(i), "w1", "u1", "a", i = 1, i)]

Step(d) ==
    \/ UpdateLoad(d)
    \/ UpdateCas(d)
    \/ UpdateRetry(d)
    \/ TickOperation(d)
    \/ ReadOperationClock(d)
    \/ StoreOperation(d)
    \/ ApplyOperation(d)
    \/ ServiceQuery(d)
    \/ HandlerQuery(d)
    \/ HandlerRespond(d)

\* requests of different devices overlap freely
Next ==
    \/ \E d \in Clients : Begin(d, ProtoBatches, MaxRequests)
    \/ \E d \in Clients : Step(d)
    \/ Restart

Spec == Init /\ [][Next]_vars

\* requests run one after another
NextSeq ==
    \/ \E d \in Clients :
          AllIdle /\ Begin(d, DocBatches, MaxRequests)
    \/ \E d \in Clients : Step(d)
    \/ Restart

SpecSeq == Init /\ [][NextSeq]_vars

\* a running server, requests one after another; a device may send the
\* long batch
NextBulk ==
    \/ \E d \in Clients :
          AllIdle /\ Begin(d, {<<>>, PairBatch, BulkBatch}, MaxRequests)
    \/ \E d \in Clients : Step(d)

SpecBulk == Init /\ [][NextBulk]_vars

CallsPerThread == 2

\* clock values a caller hands to update
ClockInputs == {0, 3, ClockModulus - 2, ClockModulus - 1}

\* a thread calls tick()
ClockTick(d) ==
    /\ Idle(d)
    /\ idx[d] < CallsPerThread
    /\ opClock' = [opClock EXCEPT ![d] = Tick(clock).ret]
    /\ clock' = Tick(clock).next
    /\ idx' = [idx EXCEPT ![d] = @ + 1]
    /\ hist' = [hist EXCEPT !.advance = @ + 1]
    /\ UNCHANGED <<boot, probe, auth, repo, limiter, path, log, tabs, windows, pc,
                   req, loaded, srv, resp, result, cursor>>

\* a thread calls update(received_clock) and loads the value
ClockUpdate(d) ==
    /\ Idle(d)
    /\ idx[d] < CallsPerThread
    /\ \E received_clock \in ClockInputs :
          req' = [req EXCEPT ![d] = [NoRequest EXCEPT !.clock = received_clock]]
    /\ loaded' = [loaded EXCEPT ![d] = clock]
    /\ pc' = [pc EXCEPT ![d] = "update_cas"]
    /\ UNCHANGED <<boot, probe, auth, repo, limiter, path, clock, log, tabs,
                   windows, srv, idx, opClock, resp, result, cursor, hist>>

\* update: the compare_exchange_weak succeeds and the call returns; where
\* the sum overflows, the call panics or stores the wrapped value
ClockUpdateCas(d) ==
    /\ pc[d] = "update_cas"
    /\ CasMatches(clock, loaded[d])
    /\ \/ /\ clock' = UpdateValue(req[d].clock, loaded[d])
          /\ srv' = [srv EXCEPT ![d] = clock']
          /\ idx' = [idx EXCEPT ![d] = @ + 1]
          /\ pc' = [pc EXCEPT ![d] = "idle"]
          /\ result' = result
          /\ hist' = [hist EXCEPT
                        !.advance = @ + Max(req[d].clock, loaded[d]) + 1
                                      - loaded[d]]
       \/ /\ UpdateOverflows(req[d].clock, loaded[d])
          /\ pc' = [pc EXCEPT ![d] = "panicked"]
          /\ result' = [result EXCEPT ![d] = "panic"]
          /\ UNCHANGED <<clock, srv, idx, hist>>
    /\ UNCHANGED <<boot, probe, auth, repo, limiter, path, log, tabs, windows, req,
                   loaded, opClock, resp, cursor>>

NextClock ==
    \/ \E d \in Clients : ClockTick(d)
    \/ \E d \in Clients : ClockUpdate(d)
    \/ \E d \in Clients : ClockUpdateCas(d)
    \/ \E d \in Clients : UpdateRetry(d)
    \/ \E d \in Clients : UpdateLoad(d)

\* threads calling tick() and update() on one LamportClock
SpecClock == Init /\ [][NextClock]_vars

\* two devices writing the same tab
RaceBatches ==
    {<<UpsertTab("t1", "w1", "u1", "a", TRUE, 0)>>,
     <<UpsertTab("t1", "w2", "u2", "b", FALSE, 1)>>}

NextRace ==
    \/ \E d \in Clients : Begin(d, RaceBatches, MaxRequests)
    \/ \E d \in Clients : Step(d)

\* requests that overlap, each writing the document
SpecRace == Init /\ [][NextRace]_vars

\* a device whose own clock has more significant bits than an f64 holds
StampClocks == {0, 2 ^ MantissaDigits}
StampRequests ==
    {[clock |-> c, since_clock |-> None, operations |-> b] :
        c \in StampClocks, b \in RaceBatches}

\* requests one after another, each writing the same tab, and a restart
NextStamp ==
    \/ \E d \in Clients :
          AllIdle /\ BeginRequest(d, StampRequests, MaxRequests)
    \/ \E d \in Clients : Step(d)
    \/ Restart

SpecStamp == Init /\ [][NextStamp]_vars

\* devices whose own clock is at the top of the clock column, or above it
ColumnClocks == {0, I64Max - 1, I64Max + 3}
ColumnRequests ==
    {[clock |-> c, since_clock |-> s, operations |-> b] :
        c \in ColumnClocks, s \in {None, 0}, b \in ProtoBatches}

\* requests one after another, and a restart
NextColumn ==
    \/ \E d \in Clients :
          AllIdle /\ BeginRequest(d, ColumnRequests, MaxRequests)
    \/ \E d \in Clients : Step(d)
    \/ Restart

SpecColumn == Init /\ [][NextColumn]_vars

\* logs of up to MaxLogLen rows in clock order, any mix of the variants
MaxLogLen == 3
MaxPasses == 2
LogOf(ops) == [i \in 1..Len(ops) |-> Row(ops[i], i + 1, "d1")]
ReplayLogs ==
    UNION {{LogOf(ops) : ops \in [1..n -> DocOps]} : n \in 1..MaxLogLen}

InitReplay ==
    /\ \E rows \in ReplayLogs : ManagerOn(rows)
    /\ probe = NoProbe
    /\ auth = NoAuth
    /\ repo = SqliteRepo
    /\ limiter = NoLimiter

\* restore_from_operations(&operations) on the manager's document, or
\* apply_operation_to_state for every row in turn
ApplyLog ==
    /\ hist.passes < MaxPasses
    /\ LET doc == IF path = "service"
                  THEN RestoreInto(Document, GetAll(log))
                  ELSE LiveFold(Document, GetAll(log))
       IN /\ tabs' = doc.tabs
          /\ windows' = doc.windows
    /\ hist' = [hist EXCEPT !.passes = @ + 1]
    /\ UNCHANGED <<boot, probe, auth, repo, limiter, path, clock, log, pc,
                   req, loaded, srv, idx, opClock, resp, result, cursor>>

\* the earlier half of a log of n rows: its first n / 2 rows, the middle
\* row of an odd n counted in or out
HalfLengths(n) == {n \div 2, (n + 1) \div 2} \ {0}

\* the same functions on the earlier half of the log, the document empty
ApplyEarlierHalf ==
    /\ hist.passes = 0
    /\ hist.prefix = 0
    /\ \E k \in HalfLengths(Len(log)) :
         /\ LET half == SubSeq(GetAll(log), 1, k)
                doc == IF path = "service"
                       THEN RestoreInto(Document, half)
                       ELSE LiveFold(Document, half)
            IN /\ tabs' = doc.tabs
               /\ windows' = doc.windows
         /\ hist' = [hist EXCEPT !.prefix = k]
    /\ UNCHANGED <<boot, probe, auth, repo, limiter, path, clock, log, pc,
                   req, loaded, srv, idx, opClock, resp, result, cursor>>

NextReplay ==
    \/ ApplyLog
    \/ ApplyEarlierHalf

\* a log applied to one document again and again, the document empty at
\* first or holding the earlier half of the log
SpecReplay == InitReplay /\ [][NextReplay]_vars

\* operations that validation is to stop
EmptyIdUpsert == UpsertTab("", "w1", "u1", "a", TRUE, 0)
NegativeIndexUpsert == UpsertTab("t2", "w1", "u1", "a", FALSE, 0 - 1)
NegativeIndexMove == MoveTab("t1", "w1", 0 - 1)

\* a valid operation followed by an invalid one
MixedBatch == <<UpsertTab("t9", "w1", "u1", "a", TRUE, 0), EmptyIdUpsert>>

CheckedBatches ==
    {<<>>, <<UpsertTab("t1", "w1", "u1", "a", TRUE, 0)>>, MixedBatch,
     <<NegativeIndexUpsert>>, <<NegativeIndexMove>>}

\* requests one after another, some of them carrying invalid operations
NextChecked ==
    \/ \E d \in Clients :
          AllIdle /\ Begin(d, CheckedBatches, MaxRequests)
    \/ \E d \in Clients : Step(d)

SpecChecked == Init /\ [][NextChecked]_vars

\* requests that leave several rows, on tabs and on windows
BootBatches ==
    {PairBatch, <<SetActive("t1", FALSE)>>, <<TrackWindow("w1", TRUE)>>}

\* requests one after another, reaching the handlers only while axum::serve
\* runs; the process may stop at any moment and start again
NextBoot ==
    \/ \E d \in Clients :
          /\ boot.phase = "serving"
          /\ AllIdle
          /\ Begin(d, BootBatches, MaxRequests)
    \/ \E d \in Clients : Step(d)
    \/ Crash
    \/ BootGetMaxClock
    \/ BootGetAll
    \/ BootReplay
    \/ BootBind

SpecBoot == Init /\ [][NextBoot]_vars

\* operations on a tab that no request creates, beside a tab and a window
\* that exist
MissingBatches ==
    {<<UpsertTab("t2", "w1", "u1", "a", TRUE, 0)>>,
     <<TrackWindow("w1", TRUE)>>,
     <<CloseTab("t1")>>,
     <<SetActive("t1", FALSE)>>,
     <<MoveTab("t1", "w2", 1)>>,
     <<ChangeUrl("t1", "u2", "b")>>}

\* one device, its requests one after another, and restarts
NextMissing ==
    \/ /\ boot.phase = "serving"
       /\ AllIdle
       /\ Begin("d1", MissingBatches, MaxRequests)
    \/ Step("d1")
    \/ Crash
    \/ BootGetMaxClock
    \/ BootGetAll
    \/ BootReplay
    \/ BootBind

SpecMissing == Init /\ [][NextMissing]_vars

\* the window operations, on a window that a request creates and on one
\* that none does
WindowBatches ==
    {<<TrackWindow("w1", TRUE)>>,
     <<TrackWindow("w1", FALSE)>>,
     <<UntrackWindow("w1")>>,
     <<UntrackWindow("w2")>>}

NextWindows ==
    \/ /\ boot.phase = "serving"
       /\ AllIdle
       /\ Begin("d1", WindowBatches, MaxRequests)
    \/ Step("d1")
    \/ Crash
    \/ BootGetMaxClock
    \/ BootGetAll
    \/ BootReplay
    \/ BootBind

SpecWindows == Init /\ [][NextWindows]_vars

\* a device whose request body carries the placeholder of the auth context
NextSentinel ==
    \/ \E d \in {AuthSentinel, "d1"} :
          AllIdle /\ Begin(d, CheckedBatches, MaxRequests)
    \/ \E d \in Devices : Step(d)

SpecSentinel == Init /\ [][NextSentinel]_vars

BEARER_PREFIX == "Bearer "

\* auth_config.shared_token
SharedToken == "tok"

\* str::starts_with
StartsWith(s, prefix) ==
    /\ Len(s) >= Len(prefix)
    /\ SubSeq(s, 1, Len(prefix)) = prefix

\* &auth[BEARER_PREFIX.len()..]
AfterPrefix(s, prefix) == SubSeq(s, Len(prefix) + 1, Len(s))

\* a middleware that takes the token with or without the scheme
AuthMiddlewareMutBareToken(header) ==
    IF ~header.present THEN "missing_token"
    ELSE LET token == IF StartsWith(header.value, BEARER_PREFIX)
                      THEN AfterPrefix(header.value, BEARER_PREFIX)
                      ELSE header.value
         IN IF token = SharedToken THEN "ok" ELSE "invalid_token"

\* auth_middleware: the verdict on the value of the token header
AuthMiddleware(header) ==
    IF ~header.present THEN "missing_token"
    ELSE IF StartsWith(header.value, BEARER_PREFIX)
         THEN IF AfterPrefix(header.value, BEARER_PREFIX) = SharedToken
              THEN "ok" ELSE "invalid_token"
         ELSE "invalid_format"

Headers ==
    {NoHeader} \cup
    {Header(v) : v \in {"Bearer tok", "bearer tok", "BeArEr tok", "Basic tok",
                        "Bearer TOK", "Bearer to", "Bearer tok2",
                        "Bearer  tok", "Bearer", "tok", ""}}

\* A request of device d arrives at the middleware, which answers it as
\* unauthorized or hands it to the route (next.run).
Authenticate(d) ==
    /\ AllIdle
    /\ auth.passed = hist.begun
    /\ hist.begun < MaxRequests
    /\ \E header \in Headers :
          LET verdict == AuthMiddleware(header)
          IN auth' = [header |-> header, device_id |-> d, verdict |-> verdict,
                      passed |-> IF verdict = "ok" THEN auth.passed + 1
                                 ELSE auth.passed]
    /\ UNCHANGED <<boot, path, clock, log, tabs, windows, pc, req, loaded, srv,
                   idx, opClock, resp, result, cursor, probe, repo,
                   limiter, hist>>

\* the route runs for the request the middleware handed on
Routed(d) ==
    /\ auth.passed > hist.begun
    /\ auth.device_id = d
    /\ Begin(d, CheckedBatches, MaxRequests)

NextAuth ==
    \/ \E d \in Clients : Authenticate(d)
    \/ \E d \in Clients : Routed(d)
    \/ \E d \in Clients : Step(d)

\* the server behind its auth middleware, requests one after another
SpecAuth == Init /\ [][NextAuth]_vars

MaxStores == 3
MaxStoreClock == 2

\* operations for direct store calls: two targets, two variants on one
StoreOps == {CloseTab("t1"), CloseTab("t2"), SetActive("t1", TRUE)}

\* DashMap::insert: a row with the id in hand is replaced, else added
MockStore(rows, op, op_clock, device_id) ==
    LET row == Row(op, op_clock, device_id)
    IN IF IdExists(rows, row.id)
       THEN [i \in 1..Len(rows) |->
                IF rows[i].id = row.id THEN row ELSE rows[i]]
       ELSE Append(rows, row)

\* OperationRepository::store called on the repository
RepoStore ==
    /\ repo.calls < MaxStores
    /\ \E d \in Clients, op \in StoreOps, op_clock \in 1..MaxStoreClock :
          LET id == OperationId(op_clock, d, op)
          IN IF repo.kind = "mock"
             THEN /\ log' = MockStore(log, op, op_clock, d)
                  /\ repo' = [repo EXCEPT !.calls = @ + 1, !.id = id,
                                          !.outcome = "ok"]
             ELSE IF StoreOk(log, op, op_clock, d)
             THEN /\ log' = Store(log, op, op_clock, d)
                  /\ repo' = [repo EXCEPT !.calls = @ + 1, !.id = id,
                                          !.outcome = "ok"]
             ELSE /\ log' = log
                  /\ repo' = [repo EXCEPT !.calls = @ + 1, !.id = id,
                                          !.outcome = "database_error"]
    /\ UNCHANGED <<boot, path, clock, tabs, windows, pc, req, loaded, srv, idx,
                   opClock, resp, result, cursor, probe, auth, limiter, hist>>

InitRepo ==
    /\ FreshServer
    /\ probe = NoProbe
    /\ auth = NoAuth
    /\ repo \in {[SqliteRepo EXCEPT !.kind = k] : k \in {"sqlite", "mock"}}
    /\ limiter = NoLimiter

\* a repository under direct store calls
SpecRepo == InitRepo /\ [][RepoStore]_vars

RateWindowSecs == 60
CleanupSecs == 300

\* seconds between two readings of Instant::now() that differ
TimeStep == 30
MaxNow == 330
MaxCap == 2
MaxBurst == 3

RetainedMutNone(entries, now) == [d \in Devices |-> NoEntry]

\* cleanup_old_rate_limit_entries
Retained(entries, now) ==
    [d \in Devices |->
        IF entries[d].present /\ now - entries[d].window_start < CleanupSecs
        THEN entries[d] ELSE NoEntry]

\* the map after the periodic cleanup check_rate_limit starts with
AfterCleanup(l) ==
    IF l.now - l.last_cleanup >= CleanupSecs
    THEN Retained(l.rate_limiter, l.now)
    ELSE l.rate_limiter

\* check_rate_limit: the entry of the device after and_modify / or_insert_with
CheckedEntry(entry, now) ==
    IF ~entry.present \/ now - entry.window_start >= RateWindowSecs
    THEN [present |-> TRUE, request_count |-> 0, window_start |-> now]
    ELSE entry

\* check_rate_limit: within_limit; a new entry is within the limit as it is
WithinLimit(entry, now, max_requests) ==
    IF ~entry.present THEN TRUE
    ELSE CheckedEntry(entry, now).request_count < max_requests

\* record_request: the entry of the device after and_modify / or_insert_with
RecordedEntry(entry, now) ==
    IF ~entry.present \/ now - entry.window_start >= RateWindowSecs
    THEN [present |-> TRUE, request_count |-> 1, window_start |-> now]
    ELSE [entry EXCEPT !.request_count = @ + 1]

\* a request of device d asks check_rate_limit
CheckRateLimit(d) ==
    /\ ~limiter.checked[d]
    /\ LET l == limiter
           entries == AfterCleanup(l)
           fresh == \/ l.first[d] = None
                    \/ l.now - l.first[d] >= RateWindowSecs
       IN /\ fresh \/ l.nth[d] < MaxBurst
          /\ limiter' =
            [l EXCEPT
               !.checked[d] = TRUE,
               !.first[d] = IF fresh THEN l.now ELSE @,
               !.nth[d] = IF fresh THEN 1 ELSE @ + 1,
               !.within_limit[d] =
                   IF l.rate_limiting
                   THEN WithinLimit(entries[d], l.now,
                                    l.max_requests_per_minute)
                   ELSE TRUE,
               !.last_cleanup =
                   IF l.rate_limiting /\ l.now - @ >= CleanupSecs
                   THEN l.now ELSE @,
               !.rate_limiter =
                   IF l.rate_limiting
                   THEN [entries EXCEPT ![d] = CheckedEntry(entries[d], l.now)]
                   ELSE @]
    /\ UNCHANGED <<boot, path, clock, log, tabs, windows, pc, req, loaded, srv,
                   idx, opClock, resp, result, cursor, probe, auth, repo,
                   hist>>

\* the same request then calls record_request
RecordRequest(d) ==
    /\ limiter.checked[d]
    /\ limiter' =
         [limiter EXCEPT
            !.checked[d] = FALSE,
            !.rate_limiter[d] =
                IF limiter.rate_limiting
                THEN RecordedEntry(@, limiter.now) ELSE @]
    /\ UNCHANGED <<boot, path, clock, log, tabs, windows, pc, req, loaded, srv,
                   idx, opClock, resp, result, cursor, probe, auth, repo,
                   hist>>

\* time passes between two requests
Advance ==
    /\ \A d \in Devices : ~limiter.checked[d]
    /\ limiter.now + TimeStep <= MaxNow
    /\ limiter' = [limiter EXCEPT !.now = @ + TimeStep]
    /\ UNCHANGED <<boot, path, clock, log, tabs, windows, pc, req, loaded, srv,
                   idx, opClock, resp, result, cursor, probe, auth, repo,
                   hist>>

InitRate ==
    /\ FreshServer
    /\ probe = NoProbe
    /\ auth = NoAuth
    /\ repo = SqliteRepo
    /\ limiter \in {[NoLimiter EXCEPT !.rate_limiting = enabled,
                                      !.max_requests_per_minute = cap] :
                       enabled \in BOOLEAN, cap \in 0..MaxCap}

NextRate ==
    \/ \E d \in Clients : CheckRateLimit(d)
    \/ \E d \in Clients : RecordRequest(d)
    \/ Advance

\* the auth service under requests that check and then record
SpecRate == InitRate /\ [][NextRate]_vars

(***************************************************************************)
(* check_rate_limit and record_request statement by statement, for         *)
(* requests that are inside them at once.                                  *)
(***************************************************************************)
\* seconds between two readings of Instant::now() in these requests
SweepStep == 150

\* the largest max_requests_per_minute of these requests' server
MaxSharedCap == 1

OtherRuns(w, d) ==
    \E v \in Workers \ {w} :
        limiter.call[v].at # "idle" /\ limiter.call[v].device_id = d

LimiterFrame ==
    UNCHANGED <<boot, path, clock, log, tabs, windows, pc, req, loaded, srv,
                idx, opClock, resp, result, cursor, probe, auth, repo, hist>>

\* check_rate_limit(device_id): rate_limiting is read, then Instant::now()
CallCheck(w) ==
    /\ limiter.call[w].at = "idle"
    /\ \E d \in Clients :
         limiter' =
           [limiter EXCEPT
              !.call[w] = [at |-> IF limiter.rate_limiting THEN "try_lock"
                                  ELSE "record",
                           device_id |-> d, now |-> limiter.now,
                           within_limit |-> TRUE, skipped |-> FALSE],
              !.raced[d] = @ \/ OtherRuns(w, d)]
    /\ LimiterFrame

\* if let Ok(mut last_cleanup) = self.last_cleanup.try_lock()
TryLock(w) ==
    /\ limiter.call[w].at = "try_lock"
    /\ limiter' =
         IF limiter.lock = ""
         THEN [limiter EXCEPT !.lock = w, !.call[w].at = "locked"]
         ELSE [limiter EXCEPT !.call[w].at = "entry",
                              !.call[w].skipped = TRUE]
    /\ LimiterFrame

\* if now.duration_since(*last_cleanup) >= 300 s; else the guard is dropped
CheckDue(w) ==
    /\ limiter.call[w].at = "locked"
    /\ limiter' =
         IF limiter.call[w].now - limiter.last_cleanup >= CleanupSecs
         THEN [limiter EXCEPT !.call[w].at = "cleanup"]
         ELSE [limiter EXCEPT !.call[w].at = "entry", !.lock = ""]
    /\ LimiterFrame

\* cleanup_old_rate_limit_entries() with its own Instant::now(), then
\* *last_cleanup = now, and the guard is dropped
Cleanup(w) ==
    /\ limiter.call[w].at = "cleanup"
    /\ LET kept == Retained(limiter.rate_limiter, limiter.now)
       IN limiter' =
            [limiter EXCEPT
               !.rate_limiter = kept,
               !.last_cleanup = limiter.call[w].now,
               !.lock = "",
               !.call[w].at = "entry",
               !.swept = @ \/ \E d \in Devices :
                              limiter.rate_limiter[d].present
                              /\ ~kept[d].present,
               !.spared = @ \/ \E d \in Devices : kept[d].present]
    /\ LimiterFrame

\* rate_limiter.entry(device_id).and_modify(..).or_insert_with(..); Ok(..)
CheckEntry(w) ==
    /\ limiter.call[w].at = "entry"
    /\ LET c == limiter.call[w]
           entry == limiter.rate_limiter[c.device_id]
           within == WithinLimit(entry, c.now,
                                 limiter.max_requests_per_minute)
       IN limiter' =
            [limiter EXCEPT
               !.rate_limiter[c.device_id] = CheckedEntry(entry, c.now),
               !.call[w].within_limit = within,
               !.call[w].at = IF within THEN "record" ELSE "idle"]
    /\ LimiterFrame

\* the request was admitted: record_request(device_id)
Record(w) ==
    /\ limiter.call[w].at = "record"
    /\ LET c == limiter.call[w]
       IN limiter' =
            [limiter EXCEPT
               !.rate_limiter[c.device_id] =
                   IF limiter.rate_limiting
                   THEN RecordedEntry(@, limiter.now) ELSE @,
               !.call[w].at = "idle"]
    /\ LimiterFrame

\* time passes, whatever the requests are doing
Elapse ==
    /\ limiter.now + SweepStep <= MaxNow
    /\ limiter' = [limiter EXCEPT !.now = @ + SweepStep]
    /\ LimiterFrame

\* rate limiting on, with a cap of one request or more
InitLimiter ==
    /\ FreshServer
    /\ probe = NoProbe
    /\ auth = NoAuth
    /\ repo = SqliteRepo
    /\ limiter \in {[NoLimiter EXCEPT !.rate_limiting = TRUE,
                                      !.max_requests_per_minute = cap] :
                       cap \in 1..MaxSharedCap}

NextLimiter ==
    \/ \E w \in Workers : CallCheck(w)
    \/ \E w \in Workers : TryLock(w)
    \/ \E w \in Workers : CheckDue(w)
    \/ \E w \in Workers : Cleanup(w)
    \/ \E w \in Workers : CheckEntry(w)
    \/ \E w \in Workers : Record(w)
    \/ Elapse

SpecLimiter == InitLimiter /\ [][NextLimiter]_vars

\* "a".repeat(n)
RECURSIVE Repeat(_, _)
Repeat(c, n) ==
    IF n = 0 THEN ""
    ELSE LET half == Repeat(c, n \div 2)
         IN IF n % 2 = 0 THEN half \o half ELSE half \o half \o c

\* n characters, the last of them two bytes wide
Accented(n) == Repeat("a", n - 1) \o "é"

\* n valid operations
Closes(n) == [i \in 1..n |-> CloseTab("t1")]

ProbeDeviceIds ==
    {"", "d1", AuthSentinel,
     Repeat("a", MaxDeviceIdLength), Repeat("a", MaxDeviceIdLength + 1),
     Accented(MaxDeviceIdLength)}

ProbeClocks == 0..2

\* requests that differ in shape, their operations all valid
ShapeProbes ==
    {[device_id |-> dv,
      request |-> [clock |-> c, since_clock |-> sc, operations |-> Closes(n)],
      outcome |-> "none"] :
        dv \in ProbeDeviceIds, c \in ProbeClocks,
        sc \in {None} \cup ProbeClocks,
        n \in {0, 1, MaxOperations, MaxOperations + 1}}

ProbeTargetIds ==
    {"", "a", Repeat("a", MaxTargetIdLength),
     Repeat("a", MaxTargetIdLength + 1), Accented(MaxTargetIdLength)}

\* every variant on target id, its other fields valid
VariantsOn(id) ==
    {UpsertTab(id, "w1", "u1", "a", TRUE, 0), CloseTab(id),
     SetActive(id, TRUE), MoveTab(id, "w1", 0), ChangeUrl(id, "u2", "b"),
     TrackWindow(id, TRUE), UntrackWindow(id), SetWindowFocus(id, TRUE)}

\* requests of one operation that differ in the operation's target id
TargetProbes ==
    {[device_id |-> "d1",
      request |-> [clock |-> 0, since_clock |-> None, operations |-> <<op>>],
      outcome |-> "none"] :
        op \in UNION {VariantsOn(id) : id \in ProbeTargetIds}}

\* validation of the request in hand, as sync runs it first
ValidateProbe ==
    /\ probe.outcome = "none"
    /\ probe' = [probe EXCEPT
                   !.outcome = IF Accepts(path, probe.request, probe.device_id)
                               THEN "accepted" ELSE "validation_error"]
    /\ UNCHANGED <<boot, path, clock, log, tabs, windows, pc, req, loaded, srv,
                   idx, opClock, resp, result, cursor, auth, repo,
                   limiter, hist>>

InitProbe ==
    /\ FreshServer
    /\ probe \in ShapeProbes \cup TargetProbes
    /\ auth = NoAuth
    /\ repo = SqliteRepo
    /\ limiter = NoLimiter

\* validation alone, on one request
SpecProbe == InitProbe /\ [][ValidateProbe]_vars

(***************************************************************************)
(* Properties.                                                             *)
(***************************************************************************)
InFlight(d) == ~Idle(d)

\* a step in which the response of d's request reaches the client
Responds(d) ==
    /\ pc[d] \in {"query", "final_clock"}
    /\ pc'[d] = "idle"
    /\ result'[d] = "ok"

\* the rows of the first n log entries that other devices stored
OthersRows(d, n) == {log[i] : i \in {j \in 1..n : log[j].device_id # d}}

NonDecreasing(rows) ==
    \A i, j \in 1..Len(rows) : i < j => rows[i].clock <= rows[j].clock

\* C1: no response to device d, initial or incremental, lists an operation
\* that was stored with device_id d.
C1_EchoSuppression ==
    \A d \in Devices :
        /\ \A i \in 1..Len(resp[d]) : resp[d][i].device_id # d
        /\ \A i \in 1..Len(Delivered(d)) : Delivered(d)[i].device_id # d

\* a response with rows, while the log the query saw held a row of the
\* requester itself that is not older than the rows returned
C1_Witness ==
    \E d \in Devices :
        /\ result[d] = "ok"
        /\ resp[d] # <<>>
        /\ \E i \in 1..hist.mark[d] :
              /\ log[i].device_id = d
              /\ log[i].clock >= resp[d][1].clock

Ticks(d) == path = "service" /\ pc[d] = "next_op" /\ pc'[d] = "store"

\* C7: tick() returns the value the clock had before the call and advances
\* the clock by exactly 1; every tick returns more than the tick before it,
\* whichever request issued it, so no two ticks return the same value.
C7_TickFresh ==
    [][\A d \in Devices :
          Ticks(d) =>
             /\ opClock'[d] = clock
             /\ clock' = clock + 1
             /\ hist.lastTick # None => hist.lastTick < opClock'[d]]_vars

\* two requests in flight hold the values of two ticks
C7_Witness ==
    /\ path = "service"
    /\ \A d \in Clients : pc[d] = "store"
    /\ \E d \in Devices : hist.lastTick = opClock[d]

\* a step in which the compare-exchange of d's update(r) succeeds
Updates(d) == pc[d] = "update_cas" /\ pc'[d] \in {"next_op", "query"}

\* C8: update(r) sets the clock to max(r, c) + 1 and returns that value,
\* where c is the clock at the moment the write takes effect, whatever the
\* other requests did since update(r) loaded the clock.
C8_UpdateAtomic ==
    [][\A d \in Devices :
          Updates(d) =>
             /\ clock' = Max(req[d].clock, clock) + 1
             /\ srv'[d] = clock']_vars

\* two overlapping update() calls both took effect, one on the value the
\* other wrote
C8_Witness ==
    \E d, e \in Devices :
        /\ d # e
        /\ InFlight(d) /\ InFlight(e)
        /\ srv[d] > 0
        /\ loaded[e] = srv[d]
        /\ srv[e] = srv[d] + 1

\* the largest clock among the first n rows of the log, 0 if there are none
MaxClockBefore(n) ==
    IF n = 0 THEN 0
    ELSE CHOOSE m \in {log[i].clock : i \in 1..n} :
            \A i \in 1..n : log[i].clock <= m

\* C9: a start on a log whose largest clock is m > 0 sets the clock to m + 1
\* and a start on an empty log sets it to 1; every operation stored after
\* the start has a clock greater than every clock stored before it.
C9_ClockAfterStartup ==
    LET m == MaxClockBefore(hist.bootLen)
    IN /\ hist.bootClock = IF m > 0 THEN m + 1 ELSE 1
       /\ \A i \in 1..Len(log) : i > hist.bootLen => log[i].clock > m

\* a restart on a log with rows, and an operation stored after it
C9_Witness ==
    /\ hist.boots > 0
    /\ hist.bootLen > 0
    /\ Len(log) > hist.bootLen

\* C2: under any interleaving, once every request has completed and the
\* last sync of a resuming device d looked at the whole log, every
\* operation another device stored has been delivered to d.  (From such a
\* state on, d's cursor only grows, so a row that is missing stays missing.)
C2_NothingMissed ==
    (AllIdle /\ hist.boots = 0) =>
        \A d \in Devices :
            (result[d] = "ok" /\ hist.mark[d] = Len(log)) =>
                OthersRows(d, Len(log)) \subseteq RowSet(Delivered(d))

\* C5: the rows delivered to a resuming device over its successive
\* responses are in ascending clock order and no row is delivered twice.
C5_DeliveredInOrderOnce ==
    \A d \in Devices :
        /\ NonDecreasing(Delivered(d))
        /\ \A i, j \in 1..Len(Delivered(d)) :
              i < j => Delivered(d)[i] # Delivered(d)[j]

\* C3: the response to a request without since_clock lists every row of the
\* log that another device stored, however many there are.
C3_InitialSyncComplete ==
    [][\A d \in Devices :
          (Responds(d) /\ req[d].since_clock = None) =>
             RowSet(resp'[d]) = OthersRows(d, hist'.mark[d])]_vars

\* C6: with requests one after another, the response to d's sync with
\* since_clock equal to the clock of its previous response lists exactly the
\* rows other devices stored after that response.
C6_ExactlyTheNewRows ==
    [][\A d \in Devices :
          (Responds(d) /\ req[d].since_clock # None) =>
             RowSet(resp'[d]) =
                OthersRows(d, Len(log)) \ OthersRows(d, hist.mark[d])]_vars

\* the same, for a server that has not been restarted
C6_ExactlyTheNewRowsOneRun ==
    [][\A d \in Devices :
          (Responds(d) /\ req[d].since_clock # None /\ hist.boots = 0) =>
             RowSet(resp'[d]) =
                OthersRows(d, Len(log)) \ OthersRows(d, hist.mark[d])]_vars

\* the apply semantics of the operation variants: TrackWindow upserts the
\* window with tracked = true, UntrackWindow creates the record when the
\* window is missing; the other variants as the document applies them
DefinedApply(doc, op, op_clock) ==
    IF op.type = "track_window"
    THEN upsert_window(doc, CrdtWindow(op.id, TRUE, 0, op_clock))
    ELSE ApplyOperationToState(doc, op, op_clock)

RECURSIVE DefinedFold(_, _)
DefinedFold(doc, rows) ==
    IF rows = <<>> THEN doc
    ELSE DefinedFold(DefinedApply(doc, Head(rows).operation,
                                  Head(rows).clock),
                     Tail(rows))

\* C10: after recovery the document equals the fold of every persisted
\* operation, in ascending clock order, under the apply semantics of the
\* variants.
C10_RecoveredIsFold ==
    (hist.boots > 0 /\ Len(log) = hist.bootLen) =>
        Document = DefinedFold(EmptyDoc, OrderByClockAsc(log))

\* C11: the clock of a successful response is the server clock when the
\* response is built, greater than the clock of every operation of the
\* request and, on a server that has not restarted, at least the number of
\* operations the request carried.
C11_ResponseClockAfterProcessing ==
    [][\A d \in Devices :
          Responds(d) =>
             /\ cursor'[d] = clock
             /\ \A r \in RequestRows(d) : cursor'[d] > r.clock
             /\ hist.boots = 0 => cursor'[d] >= Len(req[d].operations)]_vars

\* C12: a request with an operation that fails validation is rejected with
\* a validation error before anything is done: it is never processed, and no
\* operation of it, valid ones before the invalid one included, is in the
\* log or has made a tab in the document.
C12_RejectedWhole ==
    /\ \A d \in Devices :
          InFlight(d) =>
             \A i \in 1..Len(req[d].operations) :
                OperationAccepted(path, req[d].operations[i])
    /\ \A d \in Devices :
          \A i \in 1..Len(hist.rejected[d].operations) :
             LET op == hist.rejected[d].operations[i]
             IN /\ \A j \in 1..Len(log) :
                      ~(log[j].device_id = d /\ log[j].operation = op)
                /\ op.type = "upsert_tab" => ~HasTab(Document, op.id)

\* a request whose first operation is valid and whose second is not has
\* been rejected on a server that has stored other operations
C12_Witness ==
    \E d \in Devices :
        /\ result[d] = "validation_error"
        /\ Len(hist.rejected[d].operations) = 2
        /\ OperationAccepted(path, hist.rejected[d].operations[1])
        /\ ~OperationAccepted(path, hist.rejected[d].operations[2])
        /\ log # <<>>

\* C15: a request with an UpsertTab or a MoveTab of negative index is
\* rejected and stores nothing: it is never processed, and no such
\* operation is in the log.
C15_NegativeIndexRejected ==
    LET Negative(op) == op.type \in {"upsert_tab", "move_tab"} /\ op.index < 0
    IN /\ \A d \in Devices :
             InFlight(d) =>
                \A i \in 1..Len(req[d].operations) :
                   ~Negative(req[d].operations[i])
       /\ \A j \in 1..Len(log) : ~Negative(log[j].operation)

\* C13: on a request whose operations are valid, sync answers with a
\* validation error exactly when device_id is empty, longer than 128
\* characters or 'auth-validated', or since_clock is present and greater
\* than clock, or there are more than 1000 operations.
C13_RequestShape ==
    LET r == probe.request
        Rejected ==
            \/ probe.device_id = ""
            \/ Len(probe.device_id) > 128
            \/ probe.device_id = "auth-validated"
            \/ r.since_clock # None /\ r.since_clock > r.clock
            \/ Len(r.operations) > 1000
    IN (path = "service" /\ probe \in
           {[p EXCEPT !.outcome = o] :
               p \in ShapeProbes, o \in {"accepted", "validation_error"}})
       => (probe.outcome = "validation_error" <=> Rejected)

\* C14: whatever the variant, an operation whose target id is empty or
\* longer than 256 characters is rejected, and one whose target id has
\* exactly 256 characters is accepted.
C14_TargetIdLength ==
    (probe.outcome # "none" /\ Len(probe.request.operations) = 1) =>
        LET id == target_id(probe.request.operations[1])
        IN /\ (id = "" \/ Len(id) > 256) => probe.outcome = "validation_error"
           /\ Len(id) = 256 => probe.outcome = "accepted"

\* the step in which storing an operation of d's request fails
StoreFails(d) ==
    /\ pc[d] = "store"
    /\ result'[d] = "database_error"

\* the request stops at the failing operation: nothing is stored by the
\* failing step or after it, the operations before it are rows of the log,
\* and those rows stay
AbortsAtFailure ==
    /\ \A d \in Devices :
          StoreFails(d) =>
             /\ log' = log
             /\ pc'[d] = "idle"
             /\ Cardinality(RequestRows(d)) = idx[d]
             /\ \A i \in 1..idx[d] :
                   \E r \in RequestRows(d) :
                      r.operation = req[d].operations[i]
    /\ hist'.partial \subseteq RowSet(log')

\* C16: when storing the k-th operation of a batch fails with a database
\* error, operations 1..k-1 stay in the log, operations k and later are not
\* stored, and the next sync of another device with the clock of its
\* previous response as since_clock returns the rows that were stored.
C16_DatabaseErrorMidBatch ==
    [][/\ AbortsAtFailure
       /\ \A e \in Devices :
             (Responds(e) /\ req[e].since_clock # None) =>
                \A r \in hist.partial :
                   (r.device_id # e /\ r \notin OthersRows(e, hist.mark[e]))
                      => r \in RowSet(resp'[e])]_vars

\* the first half of C16 alone: the batch is cut at the failing operation
C16_CutAtFailure == [][AbortsAtFailure]_vars

\* a request failed at its second operation and its first is in the log
C16_Reached ==
    \E d \in Devices :
        /\ result[d] = "database_error"
        /\ hist.partial # {}

\* C17: a request reaches the sync logic only when the token header is
\* present and its value is exactly 'Bearer ' followed by the shared token;
\* a request the middleware refuses changes neither the clock nor the log
\* nor anything else of the server.
C17_OnlyBearerToken ==
    [][/\ hist'.begun > hist.begun =>
             /\ auth.header.present
             /\ auth.header.value = "Bearer " \o SharedToken
       /\ (auth' # auth /\ ~(/\ auth'.header.present
                             /\ auth'.header.value = "Bearer " \o SharedToken))
             => /\ auth'.verdict \in
                      {"missing_token", "invalid_format", "invalid_token"}
                /\ auth'.passed = auth.passed
                /\ UNCHANGED <<clock, log, tabs, windows, pc, req, result,
                               cursor, hist>>]_vars

\* a refused header with the right token under another scheme, after a
\* request with the right header has stored a row
C17_Witness ==
    /\ auth.header = Header("bearer tok")
    /\ auth.verdict = "invalid_format"
    /\ auth.passed > 0
    /\ log # <<>>

\* the since_clock values a query on the log in hand can tell apart
SinceClocks == 0..(Max(GetMaxClock(log), 0) + 1)

\* C18: get_since(d, s) returns exactly the stored records with clock > s
\* and device_id other than d, each once, in ascending clock order; every
\* stored operation is returned by get_since(e, 0) for every other device
\* e and never by get_since of its own device.
C18_GetSinceExact ==
    /\ \A d \in Devices : \A since \in SinceClocks :
          LET rows == GetSince(log, d, since)
          IN /\ RowSet(rows) =
                   {r \in RowSet(log) : r.clock > since /\ r.device_id # d}
             /\ Len(rows) = Cardinality(RowSet(rows))
             /\ NonDecreasing(rows)
    /\ \A r \in RowSet(log) : \A e \in Devices :
          r \in RowSet(GetSince(log, e, 0)) <=> e # r.device_id

\* a log that is not in clock order, with rows of both devices, some of
\* them at or below a since_clock that leaves others to return
C18_Witness ==
    /\ ~IsSortedByClock(log)
    /\ \E d \in Devices : \E since \in SinceClocks :
          /\ since > 0
          /\ GetSince(log, d, since) # <<>>
          /\ \E r \in RowSet(log) : r.device_id = d
          /\ \E r \in RowSet(log) : r.device_id # d /\ r.clock = since

\* the log after a store call that added exactly one record with the id in
\* hand and left the others as they were
AppendedOne ==
    /\ Len(log') = Len(log) + 1
    /\ SubSeq(log', 1, Len(log)) = log
    /\ log'[Len(log')].id = repo'.id

\* C19: store adds exactly one record and never changes or removes an
\* existing one; a store whose id is already present fails with an error
\* and leaves the log unchanged.
C19_AppendOnly ==
    [][repo'.calls > repo.calls =>
          IF IdExists(log, repo'.id)
          THEN repo'.outcome = "database_error" /\ log' = log
          ELSE repo'.outcome = "ok" /\ AppendedOne]_vars

\* the same for the SQLite repository alone
C19_AppendOnlySqlite ==
    [][(repo'.calls > repo.calls /\ repo.kind = "sqlite") =>
          IF IdExists(log, repo'.id)
          THEN repo'.outcome = "database_error" /\ log' = log
          ELSE repo'.outcome = "ok" /\ AppendedOne]_vars

\* the step in which a request of device d gets its answer from
\* check_rate_limit
Checks(d) == ~limiter.checked[d] /\ limiter'.checked[d]

\* C20: with rate limiting enabled and cap M, the n-th request of a device
\* inside one 60-second window is admitted when n <= M and refused when
\* n > M, whatever other devices do; with rate limiting disabled every
\* check passes.
C20_FixedWindowCap ==
    [][\A d \in Devices :
          Checks(d) =>
             limiter'.within_limit[d] =
                (limiter.rate_limiting =>
                    limiter'.nth[d] <= limiter.max_requests_per_minute)]_vars

\* the same for a cap of at least one
C20_FixedWindowPositiveCap ==
    [][\A d \in Devices :
          (Checks(d) /\ limiter.max_requests_per_minute > 0) =>
             limiter'.within_limit[d] =
                (limiter.rate_limiting =>
                    limiter'.nth[d] <= limiter.max_requests_per_minute)]_vars

\* a request refused as the third of its window under cap 2, after a
\* window of the same device has run out
C20_Reached ==
    \E d \in Devices :
        /\ limiter.rate_limiting
        /\ limiter.max_requests_per_minute = 2
        /\ limiter.checked[d]
        /\ ~limiter.within_limit[d]
        /\ limiter.nth[d] = 3
        /\ limiter.first[d] >= RateWindowSecs

\* C21: once the accepted requests have completed, get_max_clock() equals
\* the number of accepted operations plus the advances update(request.clock)
\* has made of the clock.
C21_MaxClockCountsOperations ==
    (AllIdle /\ hist.boots = 0) =>
        GetMaxClock(log) = Len(log) + hist.advance

\* the same at the response to a request that carried operations, on the
\* implementation that ticks
C21_AtStoringResponse ==
    [][\A d \in Devices :
          (/\ Responds(d)
           /\ path = "service"
           /\ hist.boots = 0
           /\ req[d].operations # <<>>) =>
              GetMaxClock(log') = Len(log') + hist'.advance]_vars

\* the step in which the INSERT of d's operation in hand commits
Stores(d) == pc[d] = "store" /\ Len(log') = Len(log) + 1

\* the record an UpsertTab stored as row r leaves in the document
TabOf(r) ==
    CrdtTab(r.operation.id, r.operation.window_id, r.operation.url,
            r.operation.title, r.operation.active, r.operation.index, r.clock)

\* the tabs hold what the UpsertTab rows of d's request in hand wrote
ReflectsRequest(d, tabsAfter) ==
    \A r \in RequestRows(d) :
        r.operation.type = "upsert_tab" =>
            /\ r.operation.id \in DOMAIN tabsAfter
            /\ tabsAfter[r.operation.id] = TabOf(r)

\* C22: every operation of an accepted request is stored at a clock the
\* engine has ticked for it, and when the request succeeds the document
\* holds what the operations it stored wrote.
C22_TickStoreApply ==
    [][\A d \in Devices :
          /\ Stores(d) => clock > opClock[d]
          /\ Responds(d) => ReflectsRequest(d, tabs')]_vars

\* the two halves, each on the implementation that has it
C22_EachHalfSomewhere ==
    [][\A d \in Devices :
          /\ (Stores(d) /\ path = "service") => clock > opClock[d]
          /\ (Responds(d) /\ path = "handler") => ReflectsRequest(d, tabs')]_vars

\* C23: when requests interleave, after all of them have completed the
\* document equals the fold of the log entries in ascending clock order.
C23_DocumentIsFoldOfLog ==
    (AllIdle /\ hist.boots = 0) =>
        Document = LiveFold(EmptyDoc, OrderByClockAsc(log))

\* the same on the implementation that applies, requests one at a time
C23_OneAtATime ==
    (AllIdle /\ hist.boots = 0 /\ path = "handler") =>
        Document = LiveFold(EmptyDoc, OrderByClockAsc(log))

\* the step in which store is called for d's operation in hand
CallsStore(d) == pc[d] = "store" /\ pc'[d] # "store"

DistinctClocks ==
    \A i, j \in 1..Len(log) : i < j => log[i].clock # log[j].clock

\* C24: no two records of the log share a clock, and store is never called
\* with an id that is already in the log.
C24_FreshClockPerOperation ==
    [][/\ DistinctClocks
       /\ \A d \in Devices :
             CallsStore(d) =>
                StoreOk(log, CurrentOperation(d), opClock[d], d)]_vars

\* the same on the implementation that ticks
C24_WhereTicked ==
    [][path = "service" =>
          /\ DistinctClocks
          /\ \A d \in Devices :
                CallsStore(d) =>
                   StoreOk(log, CurrentOperation(d), opClock[d], d)]_vars

\* C25: within one request every operation is stored at a clock above the
\* clocks of the operations before it in the request.
C25_IncreasingWithinRequest ==
    [][\A d \in Devices :
          Stores(d) => \A r \in RequestRows(d) : r.clock < opClock[d]]_vars

\* the same on the implementation that ticks
C25_WhereTicked ==
    [][\A d \in Devices :
          (Stores(d) /\ path = "service") =>
             \A r \in RequestRows(d) : r.clock < opClock[d]]_vars

\* every thread has issued its calls
AllCallsDone == \A d \in Clients : Idle(d) /\ idx[d] = CallsPerThread

\* the sum of the steps taken so far has not left the range of the clock
InRange == NewClockValue + hist.advance < ClockModulus

\* C26: the value of the clock never decreases under any interleaving of
\* tick() and update() calls, and after N threads have each issued K calls
\* it is at least N * K.
C26_ClockMonotonic ==
    [][/\ clock' >= clock
       /\ AllCallsDone' => clock' >= Cardinality(Clients) * CallsPerThread]_vars

\* the same while no call takes the value out of the range of the clock
C26_MonotonicInRange ==
    [][InRange' =>
          /\ clock' >= clock
          /\ AllCallsDone' =>
                clock' >= Cardinality(Clients) * CallsPerThread]_vars

\* C27: no record of the log carries the device_id 'auth-validated'.
C27_NoSentinelInLog ==
    \A i \in 1..Len(log) : log[i].device_id # "auth-validated"

\* the same on the implementation that validates the request
C27_WhereValidated ==
    path = "service" =>
        \A i \in 1..Len(log) : log[i].device_id # "auth-validated"


\* the step on which the listener is bound and axum::serve begins
StartsServing == boot.phase # "serving" /\ boot'.phase = "serving"

\* C28: a request is in the handlers only while the process is serving;
\* when serving begins the clock is above every clock of the log and the
\* document is the replay of the whole log; a start that failed stays
\* failed and serves nothing.
C28_RecoveryBeforeServing ==
    [][/\ \A d \in Devices : ~Idle(d)' => boot'.phase = "serving"
       /\ StartsServing =>
             /\ clock' > GetMaxClock(log')
             /\ Document' = RestoredDoc(log')
             /\ boot'.pos = Len(boot'.operations)
       /\ boot.phase = "failed" =>
             /\ boot'.phase = "failed"
             /\ \A d \in Devices : Idle(d)']_vars

\* a second process serves a request on a document replayed from two
\* rows or more
C28_ServesAfterReplay ==
    /\ hist.boots > 0
    /\ boot.phase = "serving"
    /\ boot.pos >= 2
    /\ tabs # EmptyMap
    /\ ~AllIdle

\* a start that failed while reading the log
C28_FailedStart ==
    /\ boot.phase = "failed"
    /\ boot.max_clock > 0
    /\ Len(log) > 0

\* d's request applies an UpsertTab to a document that holds the tab
UpsertsAgain(d) ==
    /\ pc[d] = "apply"
    /\ CurrentOperation(d).type = "upsert_tab"
    /\ HasTab(Document, CurrentOperation(d).id)

\* the record of an UpsertTab applied at op_clock
TabAt(op, op_clock) ==
    CrdtTab(op.id, op.window_id, op.url, op.title, op.active, op.index,
            op_clock)

\* the last row of the log in the order of the replay
LastReplayed == GetAll(log)[Len(log)]

\* C29: after a second UpsertTab of a tab id has been applied, live or in
\* the replay at startup, the document holds one record for that id, with
\* every field of the later operation and the later operation's clock as
\* its stamp.
C29_LastUpsertWins ==
    [][/\ \A d \in Devices :
             UpsertsAgain(d) =>
                 /\ DOMAIN tabs' = DOMAIN tabs
                 /\ tabs'[CurrentOperation(d).id] =
                        TabAt(CurrentOperation(d), opClock[d])
       /\ (hist'.boots > hist.boots /\ Len(log) >= 2) =>
             /\ DOMAIN tabs' = {LastReplayed.operation.id}
             /\ tabs'[LastReplayed.operation.id] = TabOf(LastReplayed)]_vars

\* the same for every field but the stamp, and for the stamp while the
\* clock has no more significant bits than an f64 holds
C29_FieldsWin ==
    [][/\ \A d \in Devices :
             UpsertsAgain(d) =>
                 /\ DOMAIN tabs' = DOMAIN tabs
                 /\ tabs'[CurrentOperation(d).id] =
                        TabAt(CurrentOperation(d), StoredStamp(opClock[d]))
                 /\ BitLength(opClock[d]) <= MantissaDigits =>
                        tabs'[CurrentOperation(d).id].updated_at = opClock[d]
       /\ (hist'.boots > hist.boots /\ Len(log) >= 2) =>
             /\ DOMAIN tabs' = {LastReplayed.operation.id}
             /\ tabs'[LastReplayed.operation.id] =
                    TabAt(LastReplayed.operation,
                          StoredStamp(LastReplayed.clock))]_vars

\* a second UpsertTab with other fields has been applied
C29_SecondApplied ==
    /\ Len(log) >= 2
    /\ "t1" \in DOMAIN tabs
    /\ tabs["t1"].updated_at = log[Len(log)].clock
    /\ tabs["t1"].url # log[1].operation.url
    /\ tabs["t1"].url = log[Len(log)].operation.url

\* C30: applying the whole log to a document that the same log has already
\* been applied to from empty leaves the tabs and the windows as they are.
C30_ReplayIdempotent ==
    [][(hist.passes >= 1 /\ hist'.passes = hist.passes + 1) =>
          Document' = Document]_vars

\* a log of three rows applied twice, leaving a tab and a window
C30_AppliedTwice ==
    /\ hist.passes = 2
    /\ Len(log) = 3
    /\ tabs # EmptyMap
    /\ windows # EmptyMap

\* the snapshot the log leaves in a fresh document
FreshReplay ==
    IF path = "service" THEN RestoreInto(EmptyDoc, GetAll(log))
    ELSE LiveFold(EmptyDoc, GetAll(log))

\* C31: a log replayed into a document that holds the earlier half of it
\* leaves the tabs and the windows that the log leaves in a fresh document.
C31_ReplayOverEarlierHalf ==
    (hist.prefix >= 1 /\ hist.passes = 1) => Document = FreshReplay

\* three rows replayed over their first two, which had left a tab
C31_ReplayedOverHalf ==
    /\ hist.prefix = 2
    /\ hist.passes = 1
    /\ Len(log) = 3
    /\ log[1].operation.type = "upsert_tab"
    /\ log[2].operation.type = "change_url"
    /\ tabs # EmptyMap

\* the variants that patch or remove a tab
TabPatches == {"close_tab", "set_active", "move_tab", "change_url"}

\* op is one of them and the document holds no tab of its id
OnMissingTab(op) == op.type \in TabPatches /\ ~HasTab(Document, op.id)

\* the row the replay is about to apply
NextReplayed == boot.operations[boot.pos + 1]

\* a step in which d's request applies the operation in hand
Applies(d) == pc[d] = "apply" /\ idx'[d] = idx[d] + 1

\* a step of the replay
Replays == boot.phase = "replay" /\ boot'.pos = boot.pos + 1

\* C32: CloseTab, SetActive, MoveTab and ChangeUrl for a tab id the document
\* does not hold succeed and leave the tabs and the windows as they are,
\* live and in the replay, and the operation is in the log.
C32_MissingTabNoOp ==
    [][/\ \A d \in Devices :
             (Applies(d) /\ OnMissingTab(CurrentOperation(d))) =>
                 /\ Document' = Document
                 /\ pc'[d] \in {"next_op", "query"}
                 /\ log[Len(log)].operation = CurrentOperation(d)
                 /\ log' = log
       /\ \A d \in Devices :
             (Responds(d) /\ req[d].operations # <<>>) =>
                 \E i \in 1..Len(log') :
                     /\ log'[i].operation = req[d].operations[1]
                     /\ log'[i].device_id = d
       /\ (Replays /\ OnMissingTab(NextReplayed.operation)) =>
             /\ Document' = Document
             /\ boot'.phase \in {"replay", "bind"}
             /\ log' = log]_vars

\* a request that patched a missing tab was answered, live, beside a tab
\* and a window that exist, and its row has been replayed since
C32_PatchedMissing ==
    /\ path = "handler"
    /\ hist.boots > 0
    /\ boot.phase = "serving"
    /\ "t2" \in DOMAIN tabs
    /\ "w1" \in DOMAIN windows
    /\ Len(log) = 3
    /\ log[3].operation.type = "move_tab"
    /\ boot.pos = 3

\* after the step the document holds a window record of id, tracked as given
WindowLeft(id, tracked) ==
    /\ id \in DOMAIN windows'
    /\ windows'[id].tracked = tracked

\* C33: applying UntrackWindow leaves a window record with tracked = false,
\* whether the window was in the document or not, live and in the replay.
C33_UntrackLeavesRecord ==
    [][/\ \A d \in Devices :
             (Applies(d) /\ CurrentOperation(d).type = "untrack_window") =>
                 WindowLeft(CurrentOperation(d).id, FALSE)
       /\ (Replays /\ NextReplayed.operation.type = "untrack_window") =>
             WindowLeft(NextReplayed.operation.id, FALSE)]_vars

\* the same, in the replay for a window that the document holds; for one
\* that it does not hold the replay leaves the windows as they are
C33_ReplayNeedsWindow ==
    [][/\ \A d \in Devices :
             (Applies(d) /\ CurrentOperation(d).type = "untrack_window") =>
                 WindowLeft(CurrentOperation(d).id, FALSE)
       /\ (Replays /\ NextReplayed.operation.type = "untrack_window") =>
             IF HasWindow(Document, NextReplayed.operation.id)
             THEN WindowLeft(NextReplayed.operation.id, FALSE)
             ELSE windows' = windows]_vars

\* C34: applying a TrackWindow operation leaves a window record of its id
\* with tracked = true, live and in the replay.
C34_TrackLeavesTracked ==
    [][/\ \A d \in Devices :
             (Applies(d) /\ CurrentOperation(d).type = "track_window") =>
                 WindowLeft(CurrentOperation(d).id, TRUE)
       /\ (Replays /\ NextReplayed.operation.type = "track_window") =>
             WindowLeft(NextReplayed.operation.id, TRUE)]_vars

\* the replay leaves tracked = true; the live application leaves the
\* `tracked` of the operation
C34_LiveCopiesField ==
    [][/\ \A d \in Devices :
             (Applies(d) /\ CurrentOperation(d).type = "track_window") =>
                 WindowLeft(CurrentOperation(d).id, CurrentOperation(d).active)
       /\ (Replays /\ NextReplayed.operation.type = "track_window") =>
             WindowLeft(NextReplayed.operation.id, TRUE)]_vars

\* a step in which request w leaves the position `at`
Leaves(w, at) == limiter.call[w].at = at /\ limiter'.call[w].at # at

\* C35: a check_rate_limit that finds the cleanup lock held goes on to its
\* entry without cleaning and returns its verdict; a cleanup removes the
\* entries whose window started 300 s ago or more and keeps every other
\* entry as it is.
C35_CleanupNeverBlocks ==
    [][/\ \A w \in Workers :
             (Leaves(w, "try_lock") /\ limiter.lock # "") =>
                 /\ limiter'.call[w].at = "entry"
                 /\ limiter'.rate_limiter = limiter.rate_limiter
                 /\ limiter'.lock = limiter.lock
       /\ \A w \in Workers :
             Leaves(w, "entry") =>
                 limiter'.call[w].within_limit =
                    WithinLimit(limiter.rate_limiter[limiter.call[w].device_id],
                                limiter.call[w].now,
                                limiter.max_requests_per_minute)
       /\ \A w \in Workers :
             Leaves(w, "cleanup") =>
                 \A d \in Devices :
                    limiter.rate_limiter[d].present =>
                       IF limiter.now - limiter.rate_limiter[d].window_start
                             >= CleanupSecs
                       THEN ~limiter'.rate_limiter[d].present
                       ELSE limiter'.rate_limiter[d] =
                               limiter.rate_limiter[d]]_vars

\* a request that found the lock held has its verdict, and a cleanup has
\* removed one entry and kept another
C35_SkippedAndSwept ==
    /\ \E w \in Workers :
          /\ limiter.call[w].skipped
          /\ limiter.call[w].at \in {"record", "idle"}
    /\ limiter.swept
    /\ limiter.spared

\* C37: however the check_rate_limit and record_request steps of requests
\* of one device interleave, the requests counted in the device's window
\* never exceed max_requests_per_minute.
C37_CapUnderInterleaving ==
    \A d \in Devices :
        limiter.rate_limiter[d].present =>
            limiter.rate_limiter[d].request_count
                <= limiter.max_requests_per_minute

\* the same for a device whose requests have never overlapped
C37_CapWithoutOverlap ==
    \A d \in Devices :
        (limiter.rate_limiter[d].present /\ ~limiter.raced[d]) =>
            limiter.rate_limiter[d].request_count
                <= limiter.max_requests_per_minute

\* the log has been applied once to an empty document
AppliedOnce == hist.passes = 1 /\ hist.prefix = 0

\* C36: for every log in clock order, restore_from_operations and the
\* application of the same rows one by one by apply_operation_to_state
\* leave the same tabs and windows.
C36_ReplayAgreesWithLive ==
    AppliedOnce =>
        /\ Document = RestoreInto(EmptyDoc, GetAll(log))
        /\ Document = LiveFold(EmptyDoc, GetAll(log))

\* no TrackWindow of rows carries tracked = false, and every UntrackWindow
\* comes after a TrackWindow of its window
WindowsTrackedFirst(rows) ==
    \A i \in 1..Len(rows) :
        /\ rows[i].operation.type = "track_window" => rows[i].operation.active
        /\ rows[i].operation.type = "untrack_window" =>
              \E j \in 1..(i - 1) :
                  /\ rows[j].operation.type = "track_window"
                  /\ rows[j].operation.id = rows[i].operation.id

\* the two agree on such logs
C36_AgreeOnTrackedWindows ==
    (AppliedOnce /\ WindowsTrackedFirst(GetAll(log))) =>
        /\ Document = RestoreInto(EmptyDoc, GetAll(log))
        /\ Document = LiveFold(EmptyDoc, GetAll(log))

\* C38: in every state, between the steps of overlapping requests and
\* after a restart, the clock is greater than the clock of every row of the
\* log.
C38_ClockAboveLog ==
    \A i \in 1..Len(log) : clock > log[i].clock

\* the same where every operation is stored at a value tick() returned,
\* and on the other implementation with the clock itself allowed
C38_AboveWhereTicked ==
    \A i \in 1..Len(log) :
        IF path = "service" THEN clock > log[i].clock
        ELSE clock >= log[i].clock

\* C39: whatever clock a request carries, update() stays in range, the row an
\* operation is stored in carries the clock assigned to the operation, that
\* clock is greater than the clock of every row stored before, and
\* get_since from just below the assigned clock returns the row to another
\* device.
C39_PersistedClockExact ==
    [][\A d \in Clients :
          /\ (pc[d] = "update_cas" /\ clock' # clock) =>
                ~UpdateOverflows(req[d].clock, loaded[d])
          /\ Stores(d) =>
                LET stored == log'[Len(log')]
                IN /\ stored.clock = opClock[d]
                   /\ GetMaxClock(log') = opClock[d]
                   /\ \A i \in 1..Len(log) : log[i].clock < stored.clock
                   /\ \A o \in Clients \ {d} :
                         \E i \in 1..Len(GetSince(log', o, opClock[d] - 1)) :
                            GetSince(log', o, opClock[d] - 1)[i].id
                              = stored.id]_vars

\* the same for the operations assigned a clock the column holds, where
\* every operation is assigned a clock of its own
C39_ExactWithinColumn ==
    [][\A d \in Clients :
          (Stores(d) /\ path = "service" /\ opClock[d] <= I64Max) =>
             LET stored == log'[Len(log')]
             IN /\ stored.clock = opClock[d]
                /\ GetMaxClock(log') = opClock[d]
                /\ \A i \in 1..Len(log) : log[i].clock < stored.clock
                /\ \A o \in Clients \ {d} :
                      \E i \in 1..Len(GetSince(log', o, opClock[d] - 1)) :
                         GetSince(log', o, opClock[d] - 1)[i].id
                           = stored.id]_vars

\* update() stays in range on these requests
C39_UpdateInRange ==
    \A d \in Clients :
        pc[d] = "update_cas" => ~UpdateOverflows(req[d].clock, loaded[d])

====
